---- MODULE Spec2Model ----
(***************************************************************************)
(* A model of snowlib: the connector / context lifecycle, the execution    *)
(* primitives' use of cursors, and the Table.write / write_table paths.    *)
(*                                                                         *)
(* The vendor driver is modelled by what the library observes of it:       *)
(* connections and cursors are numbered objects with a count of close()    *)
(* calls, a cursor holds the result of the last statement executed on it,  *)
(* and the warehouse holds tables (rows, or Absent), stages   *)
(* and the session's current database / schema.                            *)
(***************************************************************************)
EXTENDS Integers, Sequences, FiniteSets, TLC

VARIABLES
    vconns,      \* vendor connections ever opened: Seq of [closeCalls]
    vcurs,       \* vendor cursors ever opened: Seq of [conn, closeCalls]
    connectors,  \* SnowflakeConnector objects ever constructed
    ctx,         \* the SnowflakeContext under observation (NoCtx before construction)
    withBlock,   \* the `with SnowflakeConnector(...)` block in progress
    lastOp,      \* the operation performed by the last step, with what it returned
    curResult,   \* vendor cursor id -> the statement whose result it holds
    execPc,      \* caller -> where it is in "run a query, then fetch"
    execCur,     \* caller -> the cursor its Executor.run obtained
    execSql,     \* caller -> the statement it issued
    execRows,    \* caller -> the rows its QueryResult returned on fetch
    tables,      \* warehouse: table name -> its rows, or Absent
    sess,        \* the session's current database and schema ("" for none)
    stage,       \* the temporary stage of the staged-load path
    w,           \* the Table.write call in progress
    wlog,        \* the statements issued so far, each with its outcome
    wt,          \* the write_table call in progress
    session,     \* the Session under observation (NoSession before construction)
    jobCurs,     \* cursors opened by QueryJob methods: Seq of [by, closeCalls, call]
    job,         \* the QueryJob method call in progress
    cfgEnv,      \* the value of the SNOWLIB_CONFIG_DIR environment variable
    confDir,     \* paths.CONF_DIR (NotImported before snowlib.config is imported)
    cfgDirs,     \* the directories that exist
    cfgFiles,    \* file path -> the profile names it declares, or NoFile
    cfgCall,     \* the last call into snowlib.config, with its outcome
    keyEnv,      \* the value of the environment variable holding the passphrase
    keyStore,    \* what the OS credential store answers for the keyring entry
    keyFiles,    \* the private key files that exist
    authCall,    \* the last BaseConnector construction, with its outcome
    profileCfg,  \* what the profile declares for warehouse, role, database, schema
    sessActual,  \* the session's current warehouse, role, database, schema
    warned,      \* the UserWarnings emitted so far: Seq of <<key, kind>>
    valQueries,  \* the SELECT CURRENT_*() queries run so far: Seq of keys
    fqn,         \* the last FQN construction, with its outcome
    rtn,         \* the resolve_table_name call in progress
    listing,     \* the last read of a listing property, with its outcome
    bm,          \* the last use of a bound model of the Session, with its outcome
    rd,          \* the TableLike.read call in progress
    sx,          \* the last Session.execute_sql / query call, with its outcome
    fc,          \* a connector whose driver calls may raise
    lk           \* a primitive called with a profile name or a context

lifecycleVars == <<vconns, vcurs, connectors, ctx, withBlock, lastOp>>

execVars == <<curResult, execPc, execCur, execSql, execRows>>

writeVars == <<tables, sess, stage, w, wlog>>

sessionVars == <<session>>

jobVars == <<jobCurs, job>>

configVars == <<cfgEnv, confDir, cfgDirs, cfgFiles, cfgCall>>

authVars == <<keyEnv, keyStore, keyFiles, authCall>>

\* The inputs of the session validation, and what it has emitted.
valInputs == <<profileCfg, sessActual>>

valLog == <<warned, valQueries>>

fqnVars == <<fqn>>

rtnVars == <<rtn>>

listVars == <<listing>>

boundVars == <<bm>>

readVars == <<rd>>

sessionExecVars == <<sx>>

faultVars == <<fc>>

leakVars == <<lk>>

\* Python's None, for references to numbered objects (ids start at 1).
None == 0

\* ---------------------------------------------------------------- bounds
MaxVendorConns == 2
MaxVendorCursors == 3
MaxConnectors == 2
MaxConnectCalls == 2
NumCallers == 2
NumQueries == 2

\* Threads (or call sites of one thread) issuing queries on the same context.
Callers == 1..NumCallers

\* The statements they issue; NoQuery is "no statement executed yet".
Queries == 1..NumQueries
NoQuery == 0

\* The last SELECT CURRENT_*() of the session validation.
ValidationQuery == -1

MaxDfRows == 2
MaxTableRows == 1

\* QueryJob method calls in one behaviour.
MaxJobCalls == 3

\* The parts given to one FQN, and the characters of one part.
MaxParts == 2
MaxPartLen == 2

\* The parts of a dotted table name.
MaxNameParts == 4

\* The rows of one SHOW command.
MaxShowRows == 3

\* The limit given to TableLike.read, and the rows of the table read.
MaxLimit == 3
MaxReadRows == 4

\* connect() and close() calls made on one connector.
MaxFaultCalls == 4

\* Calls of primitives made one after the other.
MaxPrimitiveCalls == 2

\* The columns of a table converted to VARIANT.
MaxColumns == 2

\* The rows the warehouse returns for statement q.
RowsOf(q) == <<"rows of", q>>

Profiles == {"dev"}
OverrideSets == {"none", "warehouse=WH2"}

\* ------------------------------------------------------- vendor driver
\* snowflake.connector.connect(**cfg): a new open connection.
VendorConnect(vc) == Append(vc, [closeCalls |-> 0])

\* connection.cursor(): a new open cursor on connection c.
VendorCursor(vu, c) == Append(vu, [conn |-> c, closeCalls |-> 0])

\* x.close() on a numbered vendor object.
VendorClose(objs, i) == [objs EXCEPT ![i].closeCalls = @ + 1]

\* ------------------------------------------------- SnowflakeConnector
\* SnowflakeConnector.__init__: connection and cursor initialized lazily.
\* connectCalls / opens count connect() calls and vendor connections opened
\* since construction or the last close().
NewConnector(owner, profile, overrides) ==
    [owner |-> owner, profile |-> profile, overrides |-> overrides,
     conn |-> None, cur |-> None, connectCalls |-> 0, opens |-> 0]

\* A connect() that opens a second connection although one is held.
SnowflakeConnector_connect_always(c, vc, vu) ==
    [connector |-> [c EXCEPT !.conn = Len(vc) + 1, !.cur = Len(vu) + 1,
                             !.connectCalls = @ + 1, !.opens = @ + 1],
     vconns |-> VendorConnect(vc),
     vcurs |-> VendorCursor(vu, Len(vc) + 1),
     ret |-> <<Len(vc) + 1, Len(vu) + 1>>]

\* SnowflakeConnector.connect: opens the connection and one cursor only when
\* no connection is held; returns (self._connection, self._cursor).
SnowflakeConnector_connect(c, vc, vu) ==
    IF c.conn = None
    THEN [connector |-> [c EXCEPT !.conn = Len(vc) + 1, !.cur = Len(vu) + 1,
                                  !.connectCalls = @ + 1, !.opens = @ + 1],
          vconns |-> VendorConnect(vc),
          vcurs |-> VendorCursor(vu, Len(vc) + 1),
          ret |-> <<Len(vc) + 1, Len(vu) + 1>>]
    ELSE [connector |-> [c EXCEPT !.connectCalls = @ + 1],
          vconns |-> vc, vcurs |-> vu,
          ret |-> <<c.conn, c.cur>>]

\* A close() that closes the cursor but forgets the connection.
SnowflakeConnector_close_cursor_only(c, vc, vu) ==
    [connector |-> [c EXCEPT !.cur = None, !.connectCalls = 0, !.opens = 0],
     vconns |-> vc,
     vcurs |-> IF c.cur # None THEN VendorClose(vu, c.cur) ELSE vu]

\* SnowflakeConnector.close: closes the cursor, then the connection, and
\* drops both references.
SnowflakeConnector_close(c, vc, vu) ==
    [connector |-> [c EXCEPT !.cur = None, !.conn = None,
                             !.connectCalls = 0, !.opens = 0],
     vconns |-> IF c.conn # None THEN VendorClose(vc, c.conn) ELSE vc,
     vcurs |-> IF c.cur # None THEN VendorClose(vu, c.cur) ELSE vu]

\* SnowflakeConnector.__exit__ always returns False.
SnowflakeConnector_exit_returns == FALSE

\* An __exit__ that swallows the body's exception.
SnowflakeConnector_exit_returns_true == TRUE

\* ------------------------------------------- session validation
\* A configuration key that is not declared, and a CURRENT_*() that is NULL.
Undeclared == "<undeclared>"
Null == ""

\* The keys validated, in the order of the loop.
ValKeys == <<"warehouse", "role", "database", "schema">>
ValKeySet == {ValKeys[i] : i \in 1..Len(ValKeys)}

\* What a profile may declare for a key (nothing, the empty string, a name
\* in lower case), and what the session may answer.
DeclaredValues == {Undeclared, "", "wh1"}
ActualValues == {Null, "WH1", "WH2"}

\* str.upper() on these values.
UpperValue(v) == IF v = "wh1" THEN "WH1" ELSE v

\* BaseConnector.__init__, lines 38-41: the profile's values with the
\* keyword overrides laid over them.
ConnectorCfg(overrides) ==
    IF overrides = "warehouse=WH2"
    THEN [profileCfg EXCEPT !["warehouse"] = "WH2"]
    ELSE profileCfg

NoValidation == [warnings |-> <<>>, queries |-> <<>>]

\* SnowflakeContext._validate_session_context, lines 95-114: for each key
\* with a truthy declared value, one query, and one warning when the
\* session has no value or another one (compared in upper case).
RECURSIVE ValidateFrom(_, _, _)
ValidateFrom(cfg, actual, i) ==
    IF i > Len(ValKeys) THEN NoValidation
    ELSE LET k == ValKeys[i]
             rest == ValidateFrom(cfg, actual, i + 1)
         IN IF cfg[k] \in {Undeclared, ""}
            THEN rest
            ELSE [queries |-> <<k>> \o rest.queries,
                  warnings |->
                     (IF actual[k] = Null
                      THEN <<<<k, "not active">>>>
                      ELSE IF UpperValue(cfg[k]) # UpperValue(actual[k])
                      THEN <<<<k, "does not match">>>>
                      ELSE <<>>) \o rest.warnings]

\* A validation that compares the values as they are spelled.
ValidateSessionContext_case_sensitive(cfg, actual) ==
    LET keys == {k \in ValKeySet : cfg[k] \notin {Undeclared, ""}}
        seq == SelectSeq(ValKeys, LAMBDA k : k \in keys)
        bad == SelectSeq(seq, LAMBDA k : cfg[k] # actual[k])
    IN [queries |-> seq,
        warnings |-> [i \in 1..Len(bad) |->
                        <<bad[i], IF actual[bad[i]] = Null THEN "not active"
                                  ELSE "does not match">>]]

ValidateSessionContext(cfg, actual) == ValidateFrom(cfg, actual, 1)

\* --------------------------------------------------- SnowflakeContext
NoCtx == [kind |-> "none"]

\* SnowflakeContext.__init__: exactly one of profile / connection must be
\* given (profile = "" and connection = None stand for "not given").
\* created counts the connectors this context has constructed since its own
\* construction or its last effective close(); opens counts the times it
\* has opened a connection and closes its calls of a connector's close().
SnowflakeContext_init(profile, connection, cursor, overrides) ==
    IF (profile = "" /\ connection = None) \/ (profile # "" /\ connection # None)
    THEN NoCtx
    ELSE [kind |-> IF profile # "" THEN "profile" ELSE "external",
          profile |-> profile, overrides |-> overrides,
          conn |-> connection, cur |-> cursor,
          connector |-> None, owns |-> FALSE, created |-> 0,
          opens |-> 0, closes |-> 0]

\* A connection property that never uses its cache: every access builds a
\* connector and connects.
SnowflakeContext_connection_uncached(x, ks, vc, vu) ==
    LET r == SnowflakeConnector_connect(
                 NewConnector("ctx", x.profile, x.overrides), vc, vu)
    IN [ctx |-> [x EXCEPT !.connector = Len(ks) + 1,
                          !.conn = r.ret[1], !.cur = r.ret[2],
                          !.owns = TRUE, !.created = @ + 1,
                               !.opens = @ + 1],
        connectors |-> Append(ks, r.connector),
        vconns |-> r.vconns, vcurs |-> r.vcurs, ret |-> r.ret[1],
        val |-> ValidateSessionContext(ConnectorCfg(x.overrides), sessActual)]

\* SnowflakeContext.connection: creates the connector and connects on first
\* use, caches connection and cursor.  Yields the new context, connector
\* list, vendor objects and the returned connection.
SnowflakeContext_connection(x, ks, vc, vu) ==
    IF x.conn = None
    THEN LET r == SnowflakeConnector_connect(
                      NewConnector("ctx", x.profile, x.overrides), vc, vu)
         IN [ctx |-> [x EXCEPT !.connector = Len(ks) + 1,
                               !.conn = r.ret[1], !.cur = r.ret[2],
                               !.owns = TRUE, !.created = @ + 1,
                               !.opens = @ + 1],
             connectors |-> Append(ks, r.connector),
             vconns |-> r.vconns, vcurs |-> r.vcurs, ret |-> r.ret[1],
             val |-> ValidateSessionContext(ConnectorCfg(x.overrides),
                                            sessActual)]
    ELSE [ctx |-> x, connectors |-> ks, vconns |-> vc, vcurs |-> vu,
          ret |-> x.conn, val |-> NoValidation]

\* SnowflakeContext.cursor: when no cursor is cached, asks the connection
\* (creating it if needed) for a new cursor and caches that one.
\* ret = None stands for the vendor raising on a closed connection.
SnowflakeContext_cursor(x, ks, vc, vu) ==
    IF x.cur = None
    THEN LET r == SnowflakeContext_connection(x, ks, vc, vu)
         IN IF r.vconns[r.ret].closeCalls > 0
            THEN [r EXCEPT !.ret = None]
            ELSE [r EXCEPT !.ctx.cur = Len(r.vcurs) + 1,
                           !.vcurs = VendorCursor(r.vcurs, r.ret),
                           !.ret = Len(r.vcurs) + 1]
    ELSE [ctx |-> x, connectors |-> ks, vconns |-> vc, vcurs |-> vu,
          ret |-> x.cur, val |-> NoValidation]

\* SnowflakeContext.new_cursor: a new cursor from the connection, not cached.
SnowflakeContext_new_cursor(x, ks, vc, vu) ==
    LET r == SnowflakeContext_connection(x, ks, vc, vu)
    IN IF r.vconns[r.ret].closeCalls > 0
       THEN [r EXCEPT !.ret = None]
       ELSE [r EXCEPT !.vcurs = VendorCursor(r.vcurs, r.ret),
                      !.ret = Len(r.vcurs) + 1]

\* A close() that does not look at _owns_connector: without a connector of
\* its own it closes the connection and cursor it was given.
SnowflakeContext_close_unowned(x, ks, vc, vu) ==
    IF x.connector # None
    THEN LET r == SnowflakeConnector_close(ks[x.connector], vc, vu)
         IN [ctx |-> [x EXCEPT !.connector = None, !.conn = None,
                               !.cur = None, !.created = 0,
                               !.closes = @ + 1],
             connectors |-> [ks EXCEPT ![x.connector] = r.connector],
             vconns |-> r.vconns, vcurs |-> r.vcurs]
    ELSE [ctx |-> [x EXCEPT !.conn = None, !.cur = None],
          connectors |-> ks,
          vconns |-> IF x.conn # None THEN VendorClose(vc, x.conn) ELSE vc,
          vcurs |-> IF x.cur # None THEN VendorClose(vu, x.cur) ELSE vu]

\* A close() that closes the connector it owns but keeps its reference to
\* it, so that a second close() calls the connector's close() again.
SnowflakeContext_close_keeps_connector(x, ks, vc, vu) ==
    IF x.owns /\ x.connector # None
    THEN LET r == SnowflakeConnector_close(ks[x.connector], vc, vu)
         IN [ctx |-> [x EXCEPT !.conn = None, !.cur = None, !.created = 0,
                               !.closes = @ + 1],
             connectors |-> [ks EXCEPT ![x.connector] = r.connector],
             vconns |-> r.vconns, vcurs |-> r.vcurs]
    ELSE [ctx |-> x, connectors |-> ks, vconns |-> vc, vcurs |-> vu]

\* SnowflakeContext.close: closes the connector only if this context owns
\* one, and then forgets connector, connection and cursor.
SnowflakeContext_close(x, ks, vc, vu) ==
    IF x.owns /\ x.connector # None
    THEN LET r == SnowflakeConnector_close(ks[x.connector], vc, vu)
         IN [ctx |-> [x EXCEPT !.connector = None, !.conn = None,
                               !.cur = None, !.created = 0,
                               !.closes = @ + 1],
             connectors |-> [ks EXCEPT ![x.connector] = r.connector],
             vconns |-> r.vconns, vcurs |-> r.vcurs]
    ELSE [ctx |-> x, connectors |-> ks, vconns |-> vc, vcurs |-> vu]

\* ------------------------------------------------- lifecycle: actions
UserConnectors == {k \in 1..Len(connectors) : connectors[k].owner = "user"}

\* Room for a connect() on connector c: either nothing is opened, or the
\* vendor objects it opens stay within the bounds.
CanConnect(c) ==
    /\ c.connectCalls < MaxConnectCalls
    /\ c.conn = None => /\ Len(vconns) < MaxVendorConns
                        /\ Len(vcurs) < MaxVendorCursors

\* connector = SnowflakeConnector(profile, **overrides)
UserNewConnector ==
    /\ Len(connectors) < MaxConnectors
    /\ \E p \in Profiles, o \in OverrideSets :
          connectors' = Append(connectors, NewConnector("user", p, o))
    /\ lastOp' = [op |-> "connector.init", k |-> Len(connectors) + 1, ret |-> <<>>]
    /\ UNCHANGED <<vconns, vcurs, ctx, withBlock>>

\* connector.connect()
UserConnect ==
    \E k \in UserConnectors :
       /\ CanConnect(connectors[k])
       /\ LET r == SnowflakeConnector_connect(connectors[k], vconns, vcurs)
          IN /\ connectors' = [connectors EXCEPT ![k] = r.connector]
             /\ vconns' = r.vconns
             /\ vcurs' = r.vcurs
             /\ lastOp' = [op |-> "connector.connect", k |-> k, ret |-> r.ret]
       /\ UNCHANGED <<ctx, withBlock>>

\* connector.close()
UserClose ==
    \E k \in UserConnectors :
       /\ LET r == SnowflakeConnector_close(connectors[k], vconns, vcurs)
          IN /\ connectors' = [connectors EXCEPT ![k] = r.connector]
             /\ vconns' = r.vconns
             /\ vcurs' = r.vcurs
       /\ lastOp' = [op |-> "connector.close", k |-> k, ret |-> <<>>]
       /\ UNCHANGED <<ctx, withBlock>>

\* `with connector as (conn, cur):` -- __enter__ returns connect().
WithEnter ==
    \E k \in UserConnectors :
       /\ withBlock.state # "body"
       /\ CanConnect(connectors[k])
       /\ LET r == SnowflakeConnector_connect(connectors[k], vconns, vcurs)
          IN /\ connectors' = [connectors EXCEPT ![k] = r.connector]
             /\ vconns' = r.vconns
             /\ vcurs' = r.vcurs
             /\ withBlock' = [state |-> "body", k |-> k, conn |-> r.ret[1],
                              cur |-> r.ret[2], bodyRaised |-> FALSE,
                              propagated |-> FALSE]
             /\ lastOp' = [op |-> "with.enter", k |-> k, ret |-> r.ret]
       /\ UNCHANGED ctx

\* The body of the with-block ends, normally or by raising; __exit__ calls
\* close() and its return value decides whether the exception propagates.
WithExit ==
    /\ withBlock.state = "body"
    /\ \E raised \in BOOLEAN :
          LET k == withBlock.k
              r == SnowflakeConnector_close(connectors[k], vconns, vcurs)
          IN /\ connectors' = [connectors EXCEPT ![k] = r.connector]
             /\ vconns' = r.vconns
             /\ vcurs' = r.vcurs
             /\ withBlock' = [withBlock EXCEPT
                                 !.state = "exited",
                                 !.bodyRaised = raised,
                                 !.propagated =
                                     raised /\ ~SnowflakeConnector_exit_returns]
             /\ lastOp' = [op |-> "with.exit", k |-> k, ret |-> <<>>]
    /\ UNCHANGED ctx

\* ctx = SnowflakeContext(profile=..., connection=..., cursor=..., **overrides);
\* an externally supplied connection (and cursor) is one some connector opened.
CtxInit ==
    /\ ctx = NoCtx
    /\ \E p \in Profiles \cup {""}, o \in OverrideSets,
          c \in 0..Len(vconns), u \in 0..Len(vcurs) :
          /\ u # None => (c # None /\ vcurs[u].conn = c)
          /\ p = "" => o = "none"
          /\ ctx' = SnowflakeContext_init(p, c, u, o)
          /\ lastOp' = [op |-> "ctx.init", k |-> None,
                        ret |-> <<ctx'.kind>>]
    /\ UNCHANGED <<vconns, vcurs, connectors, withBlock>>

\* Room for the context to connect.
CtxCanOpen ==
    /\ Len(vcurs) < MaxVendorCursors
    /\ ctx.conn = None => /\ Len(connectors) < MaxConnectors
                          /\ Len(vconns) < MaxVendorConns
                          /\ Len(vcurs) + 1 < MaxVendorCursors

\* ctx.connection
CtxConnection ==
    /\ ctx # NoCtx
    /\ CtxCanOpen
    /\ LET r == SnowflakeContext_connection(ctx, connectors, vconns, vcurs)
       IN /\ ctx' = r.ctx
          /\ connectors' = r.connectors
          /\ vconns' = r.vconns
          /\ vcurs' = r.vcurs
          /\ lastOp' = [op |-> "ctx.connection", k |-> None, ret |-> <<r.ret>>]
          /\ warned' = warned \o r.val.warnings
          /\ valQueries' = valQueries \o r.val.queries
    /\ UNCHANGED withBlock

\* ctx.cursor
CtxCursor ==
    /\ ctx # NoCtx
    /\ CtxCanOpen
    /\ LET r == SnowflakeContext_cursor(ctx, connectors, vconns, vcurs)
       IN /\ ctx' = r.ctx
          /\ connectors' = r.connectors
          /\ vconns' = r.vconns
          /\ vcurs' = r.vcurs
          /\ lastOp' = [op |-> "ctx.cursor", k |-> None, ret |-> <<r.ret>>]
          /\ warned' = warned \o r.val.warnings
          /\ valQueries' = valQueries \o r.val.queries
    /\ UNCHANGED withBlock

\* ctx.new_cursor()
CtxNewCursor ==
    /\ ctx # NoCtx
    /\ CtxCanOpen
    /\ LET r == SnowflakeContext_new_cursor(ctx, connectors, vconns, vcurs)
       IN /\ ctx' = r.ctx
          /\ connectors' = r.connectors
          /\ vconns' = r.vconns
          /\ vcurs' = r.vcurs
          /\ lastOp' = [op |-> "ctx.new_cursor", k |-> None, ret |-> <<r.ret>>]
          /\ warned' = warned \o r.val.warnings
          /\ valQueries' = valQueries \o r.val.queries
    /\ UNCHANGED withBlock

\* ctx.close(), also what leaving `with ctx:` does.
CtxClose ==
    /\ ctx # NoCtx
    /\ LET r == SnowflakeContext_close(ctx, connectors, vconns, vcurs)
       IN /\ ctx' = r.ctx
          /\ connectors' = r.connectors
          /\ vconns' = r.vconns
          /\ vcurs' = r.vcurs
    /\ lastOp' = [op |-> "ctx.close", k |-> None,
                  ret |-> IF lastOp.op = "ctx.close" THEN <<"again">> ELSE <<>>]
    /\ UNCHANGED withBlock

InitLifecycle ==
    /\ vconns = <<>>
    /\ vcurs = <<>>
    /\ connectors = <<>>
    /\ ctx = NoCtx
    /\ withBlock = [state |-> "out", k |-> None, conn |-> None, cur |-> None,
                    bodyRaised |-> FALSE, propagated |-> FALSE]
    /\ lastOp = [op |-> "start", k |-> None, ret |-> <<>>]

\* A program that uses connectors directly, with and without `with`.
ConnectorStep ==
    \/ UserNewConnector
    \/ UserConnect
    \/ UserClose
    \/ WithEnter
    \/ WithExit

\* A program that uses a context, built from a profile or from the
\* connection of a connector it manages itself.
ContextStep ==
    \/ UserNewConnector /\ UNCHANGED valLog
    \/ UserConnect /\ UNCHANGED valLog
    \/ UserClose /\ UNCHANGED valLog
    \/ CtxInit /\ UNCHANGED valLog
    \/ CtxConnection
    \/ CtxCursor
    \/ CtxNewCursor
    \/ CtxClose /\ UNCHANGED valLog

\* ------------------------------------------------------------ Session
NoSession == [how |-> "none"]

\* Session.__init__: exactly one of profile / context must be given
\* (ValueError otherwise); a Session given a profile builds its own context.
\* how records which of the two the caller passed.
Session_init(profile, given) ==
    IF (profile = "" /\ ~given) \/ (profile # "" /\ given)
    THEN NoSession
    ELSE [how |-> IF given THEN "context" ELSE "profile",
          owns |-> ~given, inWith |-> FALSE]

\* A Session.close that closes whatever context it holds.
Session_close_always(s, x, ks, vc, vu) ==
    [called |-> TRUE] @@ SnowflakeContext_close(x, ks, vc, vu)

\* Session.close: closes the context only when the Session owns it.
\* called says whether the context's close() was invoked.
Session_close(s, x, ks, vc, vu) ==
    IF s.owns
    THEN [called |-> TRUE] @@ SnowflakeContext_close(x, ks, vc, vu)
    ELSE [called |-> FALSE, ctx |-> x, connectors |-> ks,
          vconns |-> vc, vcurs |-> vu]

\* session = Session(profile=...) or Session(context=ctx), ctx being a
\* context the caller constructed before.
SessInit ==
    /\ session = NoSession
    /\ \E p \in Profiles \cup {""}, given \in BOOLEAN, o \in OverrideSets :
          /\ given => (ctx # NoCtx /\ o = "none")
          /\ ~given => ctx = NoCtx
          /\ session' = Session_init(p, given)
          /\ ctx' = IF session' # NoSession /\ ~given
                    THEN SnowflakeContext_init(p, None, None, o)
                    ELSE ctx
          /\ lastOp' = [op |-> "session.init", k |-> None,
                        ret |-> <<session'.how>>]
    /\ UNCHANGED <<vconns, vcurs, connectors, withBlock>>

\* `with session:` -- __enter__ returns the session itself.
SessEnter ==
    /\ session # NoSession
    /\ ~session.inWith
    /\ session' = [session EXCEPT !.inWith = TRUE]
    /\ lastOp' = [op |-> "session.enter", k |-> None, ret |-> <<>>]
    /\ UNCHANGED <<vconns, vcurs, connectors, ctx, withBlock>>

\* session.close()
SessClose ==
    /\ session # NoSession
    /\ LET r == Session_close(session, ctx, connectors, vconns, vcurs)
       IN /\ ctx' = r.ctx
          /\ connectors' = r.connectors
          /\ vconns' = r.vconns
          /\ vcurs' = r.vcurs
          /\ lastOp' = [op |-> "session.close", k |-> None, ret |-> <<r.called>>]
    /\ UNCHANGED <<session, withBlock>>

\* Leaving `with session:` -- __exit__ calls close().
SessExit ==
    /\ session # NoSession
    /\ session.inWith
    /\ LET r == Session_close(session, ctx, connectors, vconns, vcurs)
       IN /\ ctx' = r.ctx
          /\ connectors' = r.connectors
          /\ vconns' = r.vconns
          /\ vcurs' = r.vcurs
          /\ lastOp' = [op |-> "session.exit", k |-> None, ret |-> <<r.called>>]
    /\ session' = [session EXCEPT !.inWith = FALSE]
    /\ UNCHANGED withBlock

InitSession == session = NoSession

\* A program that uses a Session, built from a profile or around a context
\* of its own, which it may also use and close directly.
SessionStep ==
    \/ CtxInit /\ UNCHANGED <<session, valLog>>
    \/ CtxConnection /\ UNCHANGED session
    \/ CtxCursor /\ UNCHANGED session
    \/ CtxClose /\ UNCHANGED <<session, valLog>>
    \/ SessInit /\ UNCHANGED valLog
    \/ SessEnter /\ UNCHANGED valLog
    \/ SessClose /\ UNCHANGED valLog
    \/ SessExit /\ UNCHANGED valLog

\* ----------------------------------------------------------- QueryJob
IdleJob == [pc |-> "idle", method |-> "none", cursor |-> None,
            pending |-> "none", ret |-> "none", outcome |-> "none"]

\* What fetchone() can give after SELECT SYSTEM$CANCEL_QUERY: no row, a row
\* whose text reports the cancellation, a row with another text, a row
\* holding NULL.
CancelResults == {"no row", "cancelled", "other text", "null"}

\* abort, line 119: result is not None and "cancelled" in result[0];
\* `in` on None raises TypeError.
AbortValue(res) ==
    CASE res = "no row" -> "False"
      [] res = "cancelled" -> "True"
      [] res = "other text" -> "False"
      [] OTHER -> "TypeError"

\* cursor.close() on cursor u of the job's cursors.
JobCursorClose(jc, u) == [jc EXCEPT ![u].closeCalls = @ + 1]

\* The call that opened cursor u is over: it returned or it raised.
JobCallOver(jc, u, how) == [jc EXCEPT ![u].call = how]

\* Lines 64 and 115: cursor = self._conn.cursor(), before the try; when it
\* raises there is no cursor and the method is left at once.
JobOpenCursor ==
    /\ job.pc \in {"idle", "done"}
    /\ Len(jobCurs) < MaxJobCalls
    /\ \E m \in {"get_result", "abort"}, ok \in BOOLEAN :
          IF ok
          THEN /\ jobCurs' = Append(jobCurs, [by |-> m, closeCalls |-> 0,
                                           call |-> "running"])
               /\ job' = [IdleJob EXCEPT !.pc = m, !.method = m,
                                         !.cursor = Len(jobCurs) + 1]
          ELSE /\ jobCurs' = jobCurs
               /\ job' = [IdleJob EXCEPT !.pc = "done", !.method = m,
                                         !.outcome = "raised",
                                         !.pending = "cursor error"]

\* get_result, lines 65-68: get_results_from_sfqid; on success the cursor
\* is returned inside the QueryResult.
GetResultFetch ==
    /\ job.pc = "get_result"
    /\ \E ok \in BOOLEAN :
          /\ job' = IF ok
                 THEN [job EXCEPT !.pc = "done", !.outcome = "returned",
                                  !.ret = "QueryResult"]
                 ELSE [job EXCEPT !.pc = "except", !.pending = "fetch error"]
          /\ jobCurs' = IF ok THEN JobCallOver(jobCurs, job.cursor, "returned")
                        ELSE jobCurs

\* A handler that re-raises without closing.
GetResultExcept_no_close ==
    /\ job.pc = "except"
    /\ job' = [job EXCEPT !.pc = "done", !.outcome = "raised"]
    /\ jobCurs' = JobCallOver(jobCurs, job.cursor, "raised")

\* get_result, lines 69-72: cursor.close(), then raise; an exception of
\* close() itself takes the place of the pending one.
GetResultExcept ==
    /\ job.pc = "except"
    /\ jobCurs' = JobCallOver(JobCursorClose(jobCurs, job.cursor),
                              job.cursor, "raised")
    /\ \E closeOk \in BOOLEAN :
          job' = [job EXCEPT !.pc = "done", !.outcome = "raised",
                             !.pending = IF closeOk THEN @ ELSE "close error"]

\* abort, line 117: cursor.execute(SELECT SYSTEM$CANCEL_QUERY(...)).
AbortExecute ==
    /\ job.pc = "abort"
    /\ \E ok \in BOOLEAN :
          job' = IF ok THEN [job EXCEPT !.pc = "fetchone"]
                 ELSE [job EXCEPT !.pc = "finally",
                                  !.pending = "execute error"]
    /\ UNCHANGED jobCurs

\* abort, lines 118-119: fetchone() and the value to return.
AbortFetch ==
    /\ job.pc = "fetchone"
    /\ \/ job' = [job EXCEPT !.pc = "finally", !.pending = "fetch error"]
       \/ \E res \in CancelResults :
             job' = IF AbortValue(res) = "TypeError"
                    THEN [job EXCEPT !.pc = "finally", !.pending = "TypeError"]
                    ELSE [job EXCEPT !.pc = "finally", !.ret = AbortValue(res)]
    /\ UNCHANGED jobCurs

\* abort, lines 120-121: finally: cursor.close(); then the return or the
\* pending exception, unless close() raised.
AbortFinally ==
    /\ job.pc = "finally"
    /\ \E closeOk \in BOOLEAN :
          /\ job' = IF ~closeOk
                    THEN [job EXCEPT !.pc = "done", !.outcome = "raised",
                                     !.pending = "close error", !.ret = "none"]
                    ELSE [job EXCEPT !.pc = "done",
                                     !.outcome = IF job.pending = "none"
                                                 THEN "returned" ELSE "raised"]
          /\ jobCurs' = JobCallOver(JobCursorClose(jobCurs, job.cursor),
                                    job.cursor, job'.outcome)

InitJob ==
    /\ jobCurs = <<>>
    /\ job = IdleJob

\* Calls of get_result() and abort() on a QueryJob, one after the other.
JobStep ==
    \/ JobOpenCursor
    \/ GetResultFetch
    \/ GetResultExcept
    \/ AbortExecute
    \/ AbortFetch
    \/ AbortFinally

\* ------------------------------------------------------ snowlib.config
\* os.getenv gives None for a variable that is not set.
Unset == "<unset>"
NotImported == "<not imported>"
\* Paths are <<directory, file name>>; the path argument None, the path
\* argument "" and the content of a file that is not there are tuples too.
NoPath == <<>>
EmptyPath == <<"">>
NoFile == <<"<no file>">>

\* Path.home() / ".snowlib", and a directory SNOWLIB_CONFIG_DIR may name.
HomeDir == "~/.snowlib"
EnvDirs == {"/cfg"}
EnvValues == {Unset, ""} \cup EnvDirs

\* dir / "connections.toml"
ConfigFileIn(dir) == <<dir, "connections.toml">>

\* A file a caller may name explicitly.
ExplicitFile == <<"/proj", "my.toml">>
ConfigFiles == {ConfigFileIn(d) : d \in EnvDirs \cup {HomeDir}} \cup {ExplicitFile}

\* The path arguments: None, the empty string, a file.
PathArgs == {NoPath, EmptyPath} \cup ConfigFiles

\* Profile names, and the tables a TOML file may declare, in file order.
ProfileNames == {"default", "dev"}
FileContents ==
    {<<>>} \cup {<<a>> : a \in ProfileNames}
           \cup {q \in ProfileNames \X ProfileNames : q[1] # q[2]}

\* The parameters file f declares for profile n.
ParamsIn(f, n) == <<"parameters of", n, "in", f[1], f[2]>>

Names(content) == {content[i] : i \in 1..Len(content)}

Returned(v) == [exc |-> "none", val |-> v]
RaisedExc(e, msg) == [exc |-> e, val |-> msg]

\* _get_config_directory: the environment variable when it has a non-empty
\* value, else ~/.snowlib.
GetConfigDirectory(env) ==
    IF env # Unset /\ env # "" THEN env ELSE HomeDir

\* get_default_config_path: CONF_DIR / "connections.toml", which must exist.
get_default_config_path(cd, files) ==
    IF files[ConfigFileIn(cd)] = NoFile
    THEN RaisedExc("FileNotFoundError", <<ConfigFileIn(cd)>>)
    ELSE Returned(ConfigFileIn(cd))

\* A resolution that reads the directory from the environment at each call
\* and does not look whether the file is there.
resolve_config_path_by_env(path, cd, files, env) ==
    IF path # NoPath /\ path # EmptyPath
    THEN Returned(path)
    ELSE Returned(ConfigFileIn(GetConfigDirectory(env)))

\* resolve_config_path: a truthy path argument as it is, else the default.
resolve_config_path(path, cd, files, env) ==
    IF path # NoPath /\ path # EmptyPath
    THEN Returned(path)
    ELSE get_default_config_path(cd, files)

\* import snowlib.config: CONF_DIR = _get_config_directory(), which creates
\* ~/.snowlib when it falls back to it.
ConfigImport ==
    /\ confDir = NotImported
    /\ confDir' = GetConfigDirectory(cfgEnv)
    /\ cfgDirs' = IF confDir' = HomeDir THEN cfgDirs \cup {HomeDir} ELSE cfgDirs
    /\ cfgCall' = [fn |-> "import", path |-> NoPath, profile |-> "",
                   env |-> cfgEnv, files |-> cfgFiles, out |-> Returned(<<confDir'>>)]
    /\ UNCHANGED <<cfgEnv, cfgFiles>>

\* The process (or its launcher) sets or clears SNOWLIB_CONFIG_DIR.
SetEnv ==
    /\ \E v \in EnvValues : cfgEnv' = v
    /\ cfgEnv' # cfgEnv
    /\ UNCHANGED <<confDir, cfgDirs, cfgFiles, cfgCall>>

\* resolve_config_path(path)
ResolveCall ==
    /\ confDir # NotImported
    /\ \E path \in PathArgs :
          cfgCall' = [fn |-> "resolve_config_path", path |-> path,
                      profile |-> "", env |-> cfgEnv, files |-> cfgFiles,
                      out |-> resolve_config_path(path, confDir, cfgFiles, cfgEnv)]
    /\ UNCHANGED <<cfgEnv, confDir, cfgDirs, cfgFiles>>

\* A load_profile that hands out the parameters of the first profile of
\* the file.
load_profile_first(profile, path, cd, files, env) ==
    LET r == resolve_config_path(path, cd, files, env)
    IN IF r.exc # "none" THEN r
       ELSE IF files[r.val] = NoFile
       THEN RaisedExc("FileNotFoundError", <<r.val>>)
       ELSE IF profile \notin Names(files[r.val])
       THEN RaisedExc("KeyError", files[r.val])
       ELSE Returned(ParamsIn(r.val, files[r.val][1]))

\* load_profile: the resolved file must exist and declare the profile; the
\* KeyError message lists the file's profile names in file order.
load_profile(profile, path, cd, files, env) ==
    LET r == resolve_config_path(path, cd, files, env)
    IN IF r.exc # "none" THEN r
       ELSE IF files[r.val] = NoFile
       THEN RaisedExc("FileNotFoundError", <<r.val>>)
       ELSE IF profile \notin Names(files[r.val])
       THEN RaisedExc("KeyError", files[r.val])
       ELSE Returned(ParamsIn(r.val, profile))

\* list_profiles: [] when the resolved file does not exist, else the names
\* of the file's tables.
list_profiles(path, cd, files, env) ==
    LET r == resolve_config_path(path, cd, files, env)
    IN IF r.exc # "none" THEN r
       ELSE IF files[r.val] = NoFile THEN Returned(<<>>)
       ELSE Returned(files[r.val])

\* load_profile(profile, path)
LoadProfileCall ==
    /\ confDir # NotImported
    /\ \E path \in PathArgs, n \in ProfileNames :
          cfgCall' = [fn |-> "load_profile", path |-> path, profile |-> n,
                      env |-> cfgEnv, files |-> cfgFiles,
                      out |-> load_profile(n, path, confDir, cfgFiles, cfgEnv)]
    /\ UNCHANGED <<cfgEnv, confDir, cfgDirs, cfgFiles>>

\* list_profiles(path)
ListProfilesCall ==
    /\ confDir # NotImported
    /\ \E path \in PathArgs :
          cfgCall' = [fn |-> "list_profiles", path |-> path, profile |-> "",
                      env |-> cfgEnv, files |-> cfgFiles,
                      out |-> list_profiles(path, confDir, cfgFiles, cfgEnv)]
    /\ UNCHANGED <<cfgEnv, confDir, cfgDirs, cfgFiles>>

\* A program that imports snowlib.config and calls into it, changing the
\* environment variable when it likes.
ConfigStep ==
    \/ ConfigImport
    \/ SetEnv
    \/ ResolveCall
    \/ LoadProfileCall
    \/ ListProfilesCall

\* The files on disk when the program starts: each may be missing, and a
\* file is in a directory that exists.
InitConfig ==
    /\ cfgEnv \in EnvValues
    /\ confDir = NotImported
    /\ cfgFiles \in [ConfigFiles -> FileContents \cup {NoFile}]
    /\ cfgDirs = {f[1] : f \in {g \in ConfigFiles : cfgFiles[g] # NoFile}}
    /\ cfgCall = [fn |-> "none", path |-> NoPath, profile |-> "",
                  env |-> cfgEnv, files |-> cfgFiles, out |-> Returned(<<>>)]

\* snowlib.config left alone.
NoConfig ==
    /\ cfgEnv = Unset
    /\ confDir = NotImported
    /\ cfgFiles = [f \in ConfigFiles |-> NoFile]
    /\ cfgDirs = {}
    /\ cfgCall = [fn |-> "none", path |-> NoPath, profile |-> "",
                  env |-> Unset, files |-> cfgFiles, out |-> Returned(<<>>)]

\* ------------------------------------------- BaseConnector (keypair)
\* A configuration key that is not there.
NoKey == "<absent>"

\* The configuration after load_profile and the overrides: authenticator,
\* private_key_file and the passphrase sources.
Authenticators == {NoKey, "SNOWFLAKE_JWT", "snowflake_jwt", "externalbrowser"}
KeyFileValues == {NoKey, "", "keys/k.p8", "~/k.p8", "/keys/k.p8"}
AuthConfigs ==
    [authenticator : Authenticators,
     private_key_file : KeyFileValues,
     private_key_passphrase_env : {NoKey, "SNOW_PW"},
     use_keyring : {NoKey, "false", "true"},
     keyring_service : {NoKey, "svc"},
     keyring_username : {NoKey, "usr"},
     private_key_file_pwd : {NoKey}]

\* str.upper() on the authenticator values of the model.
UpperAuth(a) == IF a = "snowflake_jwt" THEN "SNOWFLAKE_JWT"
                ELSE IF a = "externalbrowser" THEN "EXTERNALBROWSER"
                ELSE a

\* Path(p).expanduser() and Path.is_absolute().
ExpandUser(f) == IF f = "~/k.p8" THEN "/home/u/k.p8" ELSE f
IsAbsolute(f) == f \in {"/home/u/k.p8", "/keys/k.p8"}
KeyPaths == {"/home/u/k.p8", "/keys/k.p8"}

\* What the passphrase variable may hold, and what keyring.get_password may
\* answer: None, an empty or a real password, or an error of the backend.
KeyEnvValues == {Unset, "", "env-secret"}
KeyStoreValues == {"<None>", "", "ring-secret", "<backend error>"}

\* A passphrase lookup that falls through to the keyring when the
\* configured environment variable holds nothing.
GetKeyPassphrase_fallthrough(cfg, env, store) ==
    IF cfg.private_key_passphrase_env # NoKey /\ env \notin {Unset, ""}
    THEN [exc |-> "none", pwd |-> env]
    ELSE IF cfg.use_keyring = "true" \/ cfg.keyring_service # NoKey
                                     \/ cfg.keyring_username # NoKey
    THEN IF cfg.keyring_service = NoKey \/ cfg.keyring_username = NoKey
         THEN [exc |-> "ValueError", pwd |-> NoKey]
         ELSE IF store \in {"<None>", "", "<backend error>"}
         THEN [exc |-> "ValueError", pwd |-> NoKey]
         ELSE [exc |-> "none", pwd |-> store]
    ELSE [exc |-> "none", pwd |-> NoKey]

\* BaseConnector._get_key_passphrase: the environment variable when one is
\* configured (ValueError when it holds nothing); else the keyring entry
\* when the keyring is configured (ValueError when service or username is
\* missing, the entry is empty or the backend fails); else None.
GetKeyPassphrase(cfg, env, store) ==
    IF cfg.private_key_passphrase_env # NoKey
    THEN IF env \notin {Unset, ""}
         THEN [exc |-> "none", pwd |-> env]
         ELSE [exc |-> "ValueError", pwd |-> NoKey]
    ELSE IF cfg.use_keyring = "true" \/ cfg.keyring_service # NoKey
                                     \/ cfg.keyring_username # NoKey
    THEN IF cfg.keyring_service = NoKey \/ cfg.keyring_username = NoKey
         THEN [exc |-> "ValueError", pwd |-> NoKey]
         ELSE IF store \in {"<None>", "", "<backend error>"}
         THEN [exc |-> "ValueError", pwd |-> NoKey]
         ELSE [exc |-> "none", pwd |-> store]
    ELSE [exc |-> "none", pwd |-> NoKey]

\* A keypair check that compares the authenticator as it is spelled.
ProcessKeypairAuth_case_sensitive(cfg, files, env, store) ==
    IF cfg.authenticator # "SNOWFLAKE_JWT"
    THEN [exc |-> "none", cfg |-> cfg]
    ELSE IF cfg.private_key_file \in {NoKey, ""}
    THEN [exc |-> "ValueError", cfg |-> cfg]
    ELSE [exc |-> "none", cfg |-> cfg]

\* BaseConnector._process_keypair_auth: for SNOWFLAKE_JWT (in any case) the
\* key file must be given, absolute after expanduser, and there; then the
\* passphrase is looked up and the configuration rewritten for the driver.
ProcessKeypairAuth(cfg, files, env, store) ==
    LET auth == IF cfg.authenticator = NoKey THEN ""
                ELSE UpperAuth(cfg.authenticator)
        key_path == ExpandUser(cfg.private_key_file)
        pass == GetKeyPassphrase([cfg EXCEPT !.private_key_file = key_path],
                                 env, store)
    IN IF auth # "SNOWFLAKE_JWT"
       THEN [exc |-> "none", cfg |-> cfg]
       ELSE IF cfg.private_key_file \in {NoKey, ""}
       THEN [exc |-> "ValueError", cfg |-> cfg]
       ELSE IF ~IsAbsolute(key_path)
       THEN [exc |-> "ValueError", cfg |-> cfg]
       ELSE IF key_path \notin files
       THEN [exc |-> "FileNotFoundError", cfg |-> cfg]
       ELSE IF pass.exc # "none"
       THEN [exc |-> pass.exc, cfg |-> [cfg EXCEPT !.private_key_file = key_path]]
       ELSE [exc |-> "none",
             cfg |-> [cfg EXCEPT !.private_key_file = key_path,
                                 !.private_key_file_pwd = pass.pwd,
                                 !.private_key_passphrase_env = NoKey,
                                 !.use_keyring = NoKey,
                                 !.keyring_service = NoKey,
                                 !.keyring_username = NoKey]]

EmptyConfig ==
    [authenticator |-> NoKey, private_key_file |-> NoKey,
     private_key_passphrase_env |-> NoKey, use_keyring |-> NoKey,
     keyring_service |-> NoKey, keyring_username |-> NoKey,
     private_key_file_pwd |-> NoKey]

NoAuthCall ==
    [cfg |-> EmptyConfig, done |-> FALSE,
     out |-> [exc |-> "none", cfg |-> EmptyConfig]]

\* BaseConnector.__init__ on a loaded configuration, lines 41-47.  The
\* function keeps no state between constructions: one per behaviour.
ConnectorInit ==
    /\ ~authCall.done
    /\ \E cfg \in AuthConfigs :
          authCall' = [cfg |-> cfg, done |-> TRUE,
                       out |-> ProcessKeypairAuth(cfg, keyFiles, keyEnv, keyStore)]
    /\ UNCHANGED <<keyEnv, keyStore, keyFiles>>

InitAuth ==
    /\ keyEnv \in KeyEnvValues
    /\ keyStore \in KeyStoreValues
    /\ keyFiles \in SUBSET KeyPaths
    /\ authCall = NoAuthCall

NoAuth ==
    /\ keyEnv = Unset
    /\ keyStore = "<None>"
    /\ keyFiles = {}
    /\ authCall = NoAuthCall

\* A connector constructed from a configuration of any kind, in an
\* environment of any kind.
AuthStep == ConnectorInit

\* ---------------------------------------------------------------- FQN
\* A part is the sequence of its characters: a letter, a digit, the
\* underscore, a character of no class of the pattern, and the newline.
Letters == {"a", "A"}
Digits == {"1"}
FqnChars == {"a", "1", "_", "-", "\n"}

PartStrings == UNION {[1..n -> FqnChars] : n \in 0..MaxPartLen}

\* The tuples of n parts.
PartTuples(n) == [1..n -> PartStrings]

\* [A-Za-z_] and [A-Za-z0-9_]
StartChars == Letters \cup {"_"}
WordChars == StartChars \cup Digits

\* re.match(r'^[A-Za-z_][A-Za-z0-9_]*$', name): the pattern matches the
\* first m characters, and `$` matches at the end of the string or just
\* before a newline that is its last character.
PatternMatches(name, m) ==
    /\ m >= 1
    /\ name[1] \in StartChars
    /\ \A i \in 2..m : name[i] \in WordChars

ReMatch(name) ==
    LET n == Len(name)
    IN  \/ PatternMatches(name, n)
        \/ n >= 1 /\ name[n] = "\n" /\ PatternMatches(name, n - 1)

is_valid_identifier(name) ==
    IF name = <<>> THEN FALSE ELSE ReMatch(name)

\* str.upper(), character by character.
UpperChar(c) == IF c = "a" THEN "A" ELSE c
UpperPart(part) == [i \in 1..Len(part) |-> UpperChar(part[i])]

NoPosition == -1

FqnReturned(stored) ==
    [raised |-> "none", parts |-> stored, text |-> "",
     position |-> NoPosition, part |-> <<>>]

FqnValueError(text, position, part) ==
    [raised |-> "ValueError", parts |-> <<>>, text |-> text,
     position |-> position, part |-> part]

\* FQN.__post_init__: the loop stops at the first part that is not a
\* valid identifier, whose position enumerate() counts from 0.
FQN_post_init(parts) ==
    LET bad == {i \in 1..Len(parts) : ~is_valid_identifier(parts[i])}
        first == CHOOSE i \in bad : \A j \in bad : i <= j
    IN  IF parts = <<>>
        THEN FqnValueError("FQN must have at least one part", NoPosition, <<>>)
        ELSE IF bad # {}
        THEN FqnValueError("Invalid identifier at position", first - 1,
                           parts[first])
        ELSE FqnReturned([i \in 1..Len(parts) |-> UpperPart(parts[i])])

NoFqnCall == [done |-> FALSE, given |-> <<>>, result |-> FqnReturned(<<>>)]

\* FQN(parts), once in a behaviour.
FqnConstruct ==
    /\ ~fqn.done
    /\ \E n \in 0..MaxParts : \E parts \in PartTuples(n) :
          fqn' = [done |-> TRUE, given |-> parts,
                  result |-> FQN_post_init(parts)]

NoFqn == fqn = NoFqnCall

FqnStep == FqnConstruct

\* ----------------------------------------------- resolve_table_name
\* Python's None as a value of a result row, and as str() prints it.
PyNone == <<"<None>">>
NoneText == <<"N", "o", "n", "e">>
Str(v) == IF v = PyNone THEN NoneText ELSE v

\* cursor.fetchone() of SELECT CURRENT_DATABASE() / CURRENT_SCHEMA(): no
\* row at all, or one row holding NULL or a name (one needing quotes too).
NoRow == <<>>
CurrentRows == {NoRow, <<PyNone>>, << <<"a">> >>, << <<"a", "-">> >>}

\* get_current_database / get_current_schema: str(result[0]) if result
\* else "".
GetCurrent(row) == IF row = NoRow THEN <<>> ELSE Str(row[1])

\* table_name.split("."): the parts of the name.
NameParts == {<<>>, <<"a">>, <<"1">>}
DottedNames == UNION {[1..n -> NameParts] : n \in 1..MaxNameParts}

\* `not table_name`: the empty string, whose split is one empty part.
IsEmptyName(parts) == parts = << <<>> >>

\* validate_identifier: TRUE when it returns, FALSE when it raises
\* (re.fullmatch matches the whole string).
NameLetters == Letters \cup {"N", "o", "n", "e"}

validate_identifier(name) ==
    /\ name # <<>>
    /\ name[1] \in NameLetters \cup {"_"}
    /\ \A i \in 2..Len(name) : name[i] \in NameLetters \cup Digits \cup {"_"}

\* parse_table_name(table_name, default_schema, default_database), with
\* <<>> for a default that is None or empty.
parse_table_name(parts, default_schema, default_database) ==
    IF IsEmptyName(parts) THEN RaisedExc("ValueError", <<>>)
    ELSE IF Len(parts) = 1 THEN
        IF ~validate_identifier(parts[1]) THEN RaisedExc("ValueError", <<>>)
        ELSE IF default_schema = <<>> THEN RaisedExc("ValueError", <<>>)
        ELSE IF default_database = <<>> THEN RaisedExc("ValueError", <<>>)
        ELSE IF ~validate_identifier(default_schema)
                \/ ~validate_identifier(default_database)
        THEN RaisedExc("ValueError", <<>>)
        ELSE Returned(<<default_database, default_schema, parts[1]>>)
    ELSE IF Len(parts) = 2 THEN
        IF ~validate_identifier(parts[1]) \/ ~validate_identifier(parts[2])
        THEN RaisedExc("ValueError", <<>>)
        ELSE IF default_database = <<>> THEN RaisedExc("ValueError", <<>>)
        ELSE IF ~validate_identifier(default_database)
        THEN RaisedExc("ValueError", <<>>)
        ELSE Returned(<<default_database, parts[1], parts[2]>>)
    ELSE IF Len(parts) = 3 THEN
        IF \E i \in 1..3 : ~validate_identifier(parts[i])
        THEN RaisedExc("ValueError", <<>>)
        ELSE Returned(parts)
    ELSE RaisedExc("ValueError", <<>>)

NoRtnCall ==
    [pc |-> "idle", parts |-> <<>>, dbRow |-> NoRow, schemaRow |-> NoRow,
     database |-> <<>>, schema |-> <<>>, queries |-> <<>>,
     result |-> Returned(<<>>)]

\* resolve_table_name, lines 185-201: the empty name raises, a three-part
\* name is parsed at once, any other goes on to the session.
RtnCall ==
    /\ rtn.pc = "idle"
    /\ \E parts \in DottedNames, d \in CurrentRows, s \in CurrentRows :
          LET c == [NoRtnCall EXCEPT !.parts = parts, !.dbRow = d,
                                     !.schemaRow = s]
          IN rtn' =
               IF IsEmptyName(parts)
               THEN [c EXCEPT !.pc = "done",
                              !.result = RaisedExc("ValueError", <<>>)]
               ELSE IF Len(parts) = 3
               THEN [c EXCEPT !.pc = "done",
                              !.result = parse_table_name(parts, <<>>, <<>>)]
               ELSE [c EXCEPT !.pc = IF Len(parts) <= 2 THEN "database"
                                     ELSE "parse"]

\* lines 206-213: get_current_database, ValueError when it is falsy.
RtnDatabase ==
    /\ rtn.pc = "database"
    /\ LET d == GetCurrent(rtn.dbRow)
           q == [rtn EXCEPT !.queries = Append(@, "CURRENT_DATABASE"),
                            !.database = d]
       IN rtn' =
            IF d = <<>>
            THEN [q EXCEPT !.pc = "done",
                           !.result = RaisedExc("ValueError", <<>>)]
            ELSE [q EXCEPT !.pc = IF Len(rtn.parts) = 1 THEN "schema"
                                  ELSE "parse"]

\* lines 215-222: get_current_schema, ValueError when it is falsy.
RtnSchema ==
    /\ rtn.pc = "schema"
    /\ LET d == GetCurrent(rtn.schemaRow)
           q == [rtn EXCEPT !.queries = Append(@, "CURRENT_SCHEMA"),
                            !.schema = d]
       IN rtn' =
            IF d = <<>>
            THEN [q EXCEPT !.pc = "done",
                           !.result = RaisedExc("ValueError", <<>>)]
            ELSE [q EXCEPT !.pc = "parse"]

\* line 224: return parse_table_name(table_name, default_schema,
\* default_database).
RtnParse ==
    /\ rtn.pc = "parse"
    /\ rtn' = [rtn EXCEPT !.pc = "done",
                 !.result = parse_table_name(rtn.parts, rtn.schema,
                                             rtn.database)]

NoRtn == rtn = NoRtnCall

RtnStep == RtnCall \/ RtnDatabase \/ RtnSchema \/ RtnParse

\* ------------------------------------------------ listing properties
\* The property, the class of the objects it builds, and the (validated,
\* upper case) FQN parts of the object it is read on.
ListingKinds == {"schemas", "tables", "views", "columns"}

ChildClass(kind) ==
    CASE kind = "schemas" -> "Schema"
      [] kind = "tables" -> "Table"
      [] kind = "views" -> "View"
      [] kind = "columns" -> "Column"

ContainerParts(kind) ==
    CASE kind = "schemas" -> << <<"A">> >>
      [] kind = "tables" -> << <<"A">>, <<"A">> >>
      [] kind = "views" -> << <<"A">>, <<"A">> >>
      [] kind = "columns" -> << <<"A">>, <<"A">>, <<"A">> >>

\* The names in the rows of a SHOW command.
ShowNames == {<<"a">>, <<"_", "1">>, <<"a", "-">>, <<"a", "\n">>}
ShowRows == UNION {[1..n -> ShowNames] : n \in 0..MaxShowRows}

IsQuoted(name) == ~is_valid_identifier(name)

\* Database.schemas, Schema.tables, Schema.views, TableLike.columns: the
\* rows whose name is_valid_identifier accepts become objects (whose
\* constructor builds the FQN), each other row a warning with its name.
ListChildren(kind, rows) ==
    LET kept == SelectSeq(rows, is_valid_identifier)
        fqns == [i \in 1..Len(kept) |->
                    FQN_post_init(Append(ContainerParts(kind), kept[i]))]
        raised == \E i \in 1..Len(kept) : fqns[i].raised # "none"
    IN  [exc |-> IF raised THEN "ValueError" ELSE "none",
         objects |-> IF raised THEN <<>>
                     ELSE [i \in 1..Len(kept) |->
                             [cls |-> ChildClass(kind), row |-> kept[i],
                              parts |-> fqns[i].parts]],
         warnings |-> SelectSeq(rows, IsQuoted)]

NoListing ==
    [done |-> FALSE, kind |-> "schemas", rows |-> <<>>,
     result |-> ListChildren("schemas", <<>>)]

\* One of the four properties is read.
ListingRead ==
    /\ ~listing.done
    /\ \E kind \in ListingKinds, rows \in ShowRows :
          listing' = [done |-> TRUE, kind |-> kind, rows |-> rows,
                      result |-> ListChildren(kind, rows)]

NoList == listing = NoListing

ListStep == ListingRead

\* --------------------------------------------------------- BoundModel
\* The model classes a Session exposes as bound models.
ModelClasses ==
    {"Database", "Schema", "Table", "View", "MaterializedView", "DynamicTable"}

\* Where Python finds cls.from_name: Schema defines its own, the table
\* classes inherit SchemaChild's, Database inherits SnowflakeObject's.
FromNameOf(cls) ==
    IF cls = "Database" THEN "SnowflakeObject.from_name"
    ELSE IF cls = "Schema" THEN "Schema.from_name"
    ELSE "SchemaChild.from_name"

\* cls(*parts, context): the constructor builds the FQN of its arguments.
NewModel(cls, parts) ==
    LET f == FQN_post_init(parts)
    IN  IF f.raised # "none"
        THEN [exc |-> "ValueError", cls |-> "", parts |-> <<>>, ctx |-> ""]
        ELSE [exc |-> "none", cls |-> cls, parts |-> f.parts,
              ctx |-> "session._context"]

ModelError(e) == [exc |-> e, cls |-> "", parts |-> <<>>, ctx |-> ""]

\* a or b, for strings.
Or(a, b) == IF a # <<>> THEN a ELSE b

\* cls.from_name(name, context, default_database, default_schema) on the
\* parts of name.split("."); cur is the session's current database and
\* schema as context.current_database / current_schema give them.
ModelFromName(cls, parts, default_database, default_schema, cur) ==
    CASE FromNameOf(cls) = "SnowflakeObject.from_name" ->
           ModelError("NotImplementedError")
      [] FromNameOf(cls) = "Schema.from_name" ->
           IF Len(parts) = 2 THEN NewModel(cls, parts)
           ELSE IF Len(parts) = 1 THEN
              IF cur.db = <<>> THEN ModelError("ValueError")
              ELSE NewModel(cls, <<cur.db, parts[1]>>)
           ELSE ModelError("ValueError")
      [] FromNameOf(cls) = "SchemaChild.from_name" ->
           IF Len(parts) = 3 THEN NewModel(cls, parts)
           ELSE IF Len(parts) = 2 THEN
              LET db == Or(default_database, cur.db)
              IN IF db = <<>> THEN ModelError("ValueError")
                 ELSE NewModel(cls, <<db, parts[1], parts[2]>>)
           ELSE IF Len(parts) = 1 THEN
              LET db == Or(default_database, cur.db)
                  schema == Or(default_schema, cur.schema)
              IN IF db = <<>> \/ schema = <<>> THEN ModelError("ValueError")
                 ELSE NewModel(cls, <<db, schema, parts[1]>>)
           ELSE ModelError("ValueError")

\* The arguments: names of valid and invalid parts, defaults and current
\* values that are absent (<<>>) or a name.
ModelNameParts == {<<"a">>, <<"a", "-">>}
ModelNames == UNION {[1..n -> ModelNameParts] : n \in 1..MaxNameParts}
OptionalNames == {<<>>, <<"A">>}

NoBoundCall ==
    [done |-> FALSE, how |-> "", cls |-> "", parts |-> <<>>,
     result |-> ModelError("")]

\* session.database(name): BoundModel.__call__ with one argument.
BoundDatabaseCall ==
    /\ ~bm.done
    /\ \E part \in ModelNameParts :
          bm' = [done |-> TRUE, how |-> "call", cls |-> "Database",
                 parts |-> <<part>>, result |-> NewModel("Database", <<part>>)]

\* session.<model>.from_name(name, default_database, default_schema).
BoundFromName ==
    /\ ~bm.done
    /\ \E cls \in ModelClasses, parts \in ModelNames,
          dd \in OptionalNames, ds \in OptionalNames,
          cd \in OptionalNames, cs \in OptionalNames :
          bm' = [done |-> TRUE, how |-> "from_name", cls |-> cls,
                 parts |-> parts,
                 result |-> ModelFromName(cls, parts, dd, ds,
                                          [db |-> cd, schema |-> cs])]

NoBound == bm = NoBoundCall

BoundStep == BoundDatabaseCall \/ BoundFromName

\* ------------------------------------------------------ TableLike.read
\* limit=None.
NoLimit == -1
ReadLimits == {NoLimit} \cup 0..MaxLimit

\* columns: None or [] (both falsy), or a list of names.
ReadColumns == {<<>>, <<"c1">>, <<"c2">>, <<"c1", "c2">>}

\* A bound value: a column name or a number.
BindStr(s) == [s |-> s, n |-> 0]
BindInt(n) == [s |-> "", n |-> n]

\* Python's truth value of a limit: None and 0 are falsy.
Truthy(limit) == limit # NoLimit /\ limit # 0

\* SafeQuery.when(condition, template, *values).
SafeQuery_when(q, condition, template, values) ==
    IF Truthy(condition)
    THEN [parts |-> Append(q.parts, template),
          bindings |-> q.bindings \o values]
    ELSE q

\* TableLike.read, lines 57-70: the statement and its bindings.
ReadQuery(columns, limit) ==
    LET q0 == [parts |-> <<"SELECT">>, bindings |-> <<>>]
        q1 == IF columns # <<>>
              THEN [parts |-> Append(q0.parts, "IDENTIFIER(%s), ..."),
                    bindings |-> [i \in 1..Len(columns) |-> BindStr(columns[i])]]
              ELSE [q0 EXCEPT !.parts = Append(@, "*")]
        q2 == [q1 EXCEPT !.parts = Append(@, "FROM fqn")]
    IN  SafeQuery_when(q2, limit, "LIMIT %s", <<BindInt(limit)>>)

\* The rows the warehouse returns for the statement on a table of n rows:
\* a LIMIT clause takes the last bound value.
RowsReturned(q, n) ==
    IF \E i \in 1..Len(q.parts) : q.parts[i] = "LIMIT %s"
    THEN LET l == q.bindings[Len(q.bindings)].n
         IN IF l < n THEN l ELSE n
    ELSE n

NoReadCall ==
    [pc |-> "idle", columns |-> <<>>, limit |-> NoLimit,
     query |-> [parts |-> <<>>, bindings |-> <<>>], tableRows |-> 0,
     returned |-> 0]

\* table.read(columns, limit) builds its statement.
ReadCall ==
    /\ rd.pc = "idle"
    /\ \E columns \in ReadColumns, limit \in ReadLimits :
          rd' = [NoReadCall EXCEPT !.pc = "run", !.columns = columns,
                                   !.limit = limit,
                                   !.query = ReadQuery(columns, limit)]

\* lines 72-73: executor.run(sql, bindings=bindings).to_df().
ReadRun ==
    /\ rd.pc = "run"
    /\ \E n \in 0..MaxReadRows :
          rd' = [rd EXCEPT !.pc = "done", !.tableRows = n,
                           !.returned = RowsReturned(rd.query, n)]

NoRead == rd = NoReadCall

ReadStep == ReadCall \/ ReadRun

\* ------------------------------------------- Session.execute_sql / query
\* The statements and bindings given (PyNone for bindings=None).
SessionSqls == {"SELECT 1", "SELECT %s", "SELECT %s, %s", "DELETE"}
SessionBindings == {PyNone, <<>>, <<"1">>, <<"2">>, <<"1", "2">>, <<"2", "1">>}

\* The parameters Executor.run accepts besides self.
RunParams == {"sql", "bindings"}

NoRun == [exc |-> "none", kind |-> "", sql |-> "", bindings |-> PyNone]

\* Executor.run, called with sql and the keyword arguments named in kw:
\* Python raises TypeError for a keyword the function does not declare;
\* otherwise the statement is executed on the context's cursor, without
\* bindings when bindings is None, and wrapped in a QueryResult.
Executor_run(sql, bindings, kw) ==
    IF ~(kw \subseteq RunParams)
    THEN [NoRun EXCEPT !.exc = "TypeError"]
    ELSE [exc |-> "none", kind |-> "QueryResult", sql |-> sql,
          bindings |-> bindings]

\* QueryResult.to_df().
ToDf(r) == IF r.exc = "none" THEN [r EXCEPT !.kind = "DataFrame"] ELSE r

\* Session.execute_sql: Executor(self._context).run(sql, bindings=bindings,
\* arrow=arrow).
Session_execute_sql(sql, bindings, arrow) ==
    Executor_run(sql, bindings, {"bindings", "arrow"})

\* Session.query: the same, then .to_df().
Session_query(sql, bindings, arrow) ==
    ToDf(Executor_run(sql, bindings, {"bindings", "arrow"}))

NoSessionCall ==
    [done |-> FALSE, method |-> "", sql |-> "", bindings |-> PyNone,
     arrow |-> TRUE, result |-> NoRun]

SessionCallOf(method, sql, bindings, arrow, result) ==
    [done |-> TRUE, method |-> method, sql |-> sql, bindings |-> bindings,
     arrow |-> arrow, result |-> result]

\* session.execute_sql(sql, bindings, arrow).
SessExecuteSql ==
    /\ ~sx.done
    /\ \E sql \in SessionSqls, b \in SessionBindings, arrow \in BOOLEAN :
          sx' = SessionCallOf("execute_sql", sql, b, arrow,
                              Session_execute_sql(sql, b, arrow))

\* session.query(sql, bindings, arrow).
SessQuery ==
    /\ ~sx.done
    /\ \E sql \in SessionSqls, b \in SessionBindings, arrow \in BOOLEAN :
          sx' = SessionCallOf("query", sql, b, arrow,
                              Session_query(sql, b, arrow))

\* Executor(context).run(sql, bindings=bindings), by the caller itself.
ExecutorRunCall ==
    /\ ~sx.done
    /\ \E sql \in SessionSqls, b \in SessionBindings :
          sx' = SessionCallOf("Executor.run", sql, b, TRUE,
                              Executor_run(sql, b, {"bindings"}))

NoSessionExec == sx = NoSessionCall

SessionExecStep == SessExecuteSql \/ SessQuery \/ ExecutorRunCall

\* ------------------------- SnowflakeConnector with a driver that raises
\* What a vendor call may do.
VendorOutcomes == {"returns", "raises"}

\* A connector as constructed (connection.py 44-46); opened counts the
\* vendor connections and cursors created for it, log its calls.
NoConnection ==
    [conn |-> None, cur |-> None, opened |-> 0, exc |-> "none", log |-> <<>>]

\* SnowflakeConnector.connect, lines 55-61, with the outcomes of
\* snowflake.connector.connect() and of connection.cursor(): the connection
\* is stored before the cursor is asked for; the asserts raise
\* AssertionError unless Python runs with assertions stripped (optimized).
connect_with(c, vconnect, vcursor, optimized) ==
    IF c.conn = None
    THEN IF vconnect = "raises"
         THEN [c EXCEPT !.exc = "Error"]
         ELSE IF vcursor = "raises"
         THEN [c EXCEPT !.conn = c.opened + 1, !.opened = @ + 1,
                        !.exc = "Error"]
         ELSE [c EXCEPT !.conn = c.opened + 1, !.cur = c.opened + 2,
                        !.opened = @ + 2, !.exc = "none"]
    ELSE IF c.cur = None /\ ~optimized
    THEN [c EXCEPT !.exc = "AssertionError"]
    ELSE [c EXCEPT !.exc = "none"]

\* SnowflakeConnector.close, lines 63-70, with the outcomes of
\* cursor.close() and connection.close(): each reference is dropped only
\* after its close() has returned, the cursor's first.
close_with(c, vcursor, vconnection) ==
    IF c.cur # None /\ vcursor = "raises"
    THEN [c EXCEPT !.exc = "Error"]
    ELSE IF c.conn # None /\ vconnection = "raises"
    THEN [c EXCEPT !.cur = None, !.exc = "Error"]
    ELSE [c EXCEPT !.cur = None, !.conn = None, !.exc = "none"]

\* connector.connect()
FaultyConnect ==
    /\ Len(fc.log) < MaxFaultCalls
    /\ \E a, b \in VendorOutcomes, o \in BOOLEAN :
          LET r == connect_with(fc, a, b, o)
          IN  /\ (fc.conn # None \/ a = "raises") => b = "returns"
              /\ (fc.conn = None \/ fc.cur # None) => ~o
              /\ fc.conn # None => a = "returns"
              /\ fc' = [r EXCEPT !.log =
                           Append(@, [op |-> "connect",
                                      raised |-> r.exc # "none"])]

\* connector.close()
FaultyClose ==
    /\ Len(fc.log) < MaxFaultCalls
    /\ \E a, b \in VendorOutcomes :
          LET r == close_with(fc, a, b)
          IN  /\ fc.cur = None => a = "returns"
              /\ (fc.conn = None \/ (fc.cur # None /\ a = "raises"))
                    => b = "returns"
              /\ fc' = [r EXCEPT !.log =
                           Append(@, [op |-> "close",
                                      raised |-> r.exc # "none"])]

NoConn == fc = NoConnection

FaultStep ==
    \/ FaultyConnect
    \/ FaultyClose

\* --------------------------- primitives called with a profile name
\* Primitives that return a plain value, and what each hands to the
\* driver, in order (data.py 145-176, execution.py 83-84 and 117-119).
PrimitiveNames == {"write_table", "fetch_one", "fetch_all"}
WriteModes == {"append", "replace", "fail", "overwrite"}

PrimitiveSteps(fn, mode) ==
    CASE fn = "fetch_one" -> <<"execute", "fetchone">>
      [] fn = "fetch_all" -> <<"execute", "fetchall">>
      [] mode = "replace" -> <<"DROP TABLE IF EXISTS", "write_pandas">>
      [] mode = "fail" -> <<"SHOW TABLES", "write_pandas">>
      [] OTHER -> <<"write_pandas">>

\* No primitive called yet.  conns are the vendor connections in use: by
\* whom each was opened and whether it has been closed.
NoPrimitiveCall ==
    [pc |-> "idle", fn |-> "", mode |-> "", arg |-> "", conn |-> None,
     i |-> 0, result |-> "none", calls |-> 0, conns |-> <<>>]

\* The call is over, by return or by raise.  No primitive closes the
\* context it built from the profile name: there is no close(), no with
\* block and no finally in these functions.
PrimitiveOver(result) == [lk EXCEPT !.pc = "done", !.result = result]

\* A primitive is called with a profile name or with the caller's
\* context, which is connected.  write_table validates the mode first
\* (data.py 120-123); a profile name becomes SnowflakeContext(profile=...),
\* which connects lazily (data.py 142-144, execution.py 80-81, 114-115).
PrimitiveCall ==
    /\ lk.pc \in {"idle", "done"}
    /\ lk.calls < MaxPrimitiveCalls
    /\ \E fn \in PrimitiveNames, mode \in WriteModes,
          arg \in {"profile", "context"} :
          LET call == [lk EXCEPT !.fn = fn, !.mode = mode, !.arg = arg,
                                 !.conn = None, !.i = 1, !.result = "none",
                                 !.calls = @ + 1]
          IN  /\ fn # "write_table" => mode = "append"
              /\ lk' = IF fn = "write_table" /\ mode = "overwrite"
                       THEN [call EXCEPT !.pc = "done",
                                         !.result = "ValueError"]
                       ELSE IF arg = "context"
                       THEN [call EXCEPT
                                !.pc = "run", !.conn = Len(lk.conns) + 1,
                                !.conns = Append(@, [by |-> "caller",
                                                     closed |-> FALSE])]
                       ELSE [call EXCEPT !.pc = "open"]

\* The first use of context.cursor or context.connection (context.py
\* 95-122): the context builds its connector and connects.
PrimitiveOpen ==
    /\ lk.pc = "open"
    /\ \E ok \in BOOLEAN :
          lk' = IF ok
                THEN [lk EXCEPT !.pc = "run", !.conn = Len(lk.conns) + 1,
                                !.conns = Append(@, [by |-> "call",
                                                     closed |-> FALSE])]
                ELSE PrimitiveOver("Error")

\* The next statement of the primitive; after the last one it returns.
\* table_exists finding the table makes write_table raise (data.py
\* 152-155).
PrimitiveRun ==
    /\ lk.pc = "run"
    /\ \E ok \in BOOLEAN, found \in BOOLEAN :
          LET steps == PrimitiveSteps(lk.fn, lk.mode)
          IN  /\ (~ok \/ steps[lk.i] # "SHOW TABLES") => ~found
              /\ lk' = IF ~ok THEN PrimitiveOver("Error")
                       ELSE IF found THEN PrimitiveOver("ProgrammingError")
                       ELSE IF lk.i = Len(steps)
                       THEN PrimitiveOver("returned")
                       ELSE [lk EXCEPT !.i = @ + 1]

NoLeak == lk = NoPrimitiveCall

LeakStep ==
    \/ PrimitiveCall
    \/ PrimitiveOpen
    \/ PrimitiveRun

\* -------------------------------------------- execution primitives
\* cursor.execute(sql): the cursor now holds sql's result (and returns
\* itself); what it held before is gone.
VendorExecute(cr, u, q) == [i \in DOMAIN cr \cup {u} |-> IF i = u THEN q ELSE cr[i]]

\* cursor.fetchall() / fetch_pandas_all(): the rows of the result it holds.
VendorFetch(cr, u) == RowsOf(cr[u])

\* Executor.run / execute_sql, first half: evaluate `self.context.cursor`.
RunGetCursor ==
    \E t \in Callers, q \in Queries :
       /\ execPc[t] \in {"idle", "fetched"}
       /\ ctx # NoCtx
       /\ CtxCanOpen
       /\ LET r == SnowflakeContext_cursor(ctx, connectors, vconns, vcurs)
          IN /\ ctx' = r.ctx
             /\ connectors' = r.connectors
             /\ vconns' = r.vconns
             /\ vcurs' = r.vcurs
             /\ execCur' = [execCur EXCEPT ![t] = r.ret]
             /\ lastOp' = [op |-> "run.cursor", k |-> t, ret |-> <<r.ret>>]
             /\ warned' = warned \o r.val.warnings
             /\ valQueries' = valQueries \o r.val.queries
             /\ curResult' =
                   IF r.val.queries # <<>>
                   THEN VendorExecute(curResult,
                                      r.connectors[r.ctx.connector].cur,
                                      ValidationQuery)
                   ELSE curResult
       /\ execPc' = [execPc EXCEPT ![t] = "cursor"]
       /\ execSql' = [execSql EXCEPT ![t] = q]
       /\ execRows' = [execRows EXCEPT ![t] = <<>>]
       /\ UNCHANGED withBlock

\* Executor.run / execute_sql, second half: `.execute(sql)` on that cursor,
\* wrapped as QueryResult(_cursor=cursor).
RunExecute ==
    \E t \in Callers :
       /\ execPc[t] = "cursor"
       /\ curResult' = VendorExecute(curResult, execCur[t], execSql[t])
       /\ execPc' = [execPc EXCEPT ![t] = "result"]
       /\ lastOp' = [op |-> "run.execute", k |-> t, ret |-> <<execCur[t]>>]
       /\ UNCHANGED <<vconns, vcurs, connectors, ctx, withBlock,
                      execCur, execSql, execRows>>

\* QueryResult.fetch_all() on the result the caller holds.
ResultFetch ==
    \E t \in Callers :
       /\ execPc[t] = "result"
       /\ execRows' = [execRows EXCEPT ![t] = VendorFetch(curResult, execCur[t])]
       /\ execPc' = [execPc EXCEPT ![t] = "fetched"]
       /\ lastOp' = [op |-> "result.fetch_all", k |-> t, ret |-> <<execCur[t]>>]
       /\ UNCHANGED <<vconns, vcurs, connectors, ctx, withBlock,
                      curResult, execCur, execSql>>

\* ------------------------------------------------------ the warehouse
\* A table that does not exist, and one that holds these rows.
Absent == [exists |-> FALSE, rows |-> <<>>]
TableOf(rows) == [exists |-> TRUE, rows |-> rows]

\* The table a Table object names (its FQN is stored in upper case), the
\* same name as a caller may spell it in lower case, the temporary table of
\* the append-via-temp path and the temporary table of the VARIANT
\* conversion.
TableNames == {"T", "t", "TMP", "CVT"}

\* The database and schema of the target table, and the others a session
\* may be in.
TargetDb == "DB1"
TargetSchema == "S1"
Databases == {"DB1", "DB2"}
Schemas == {"S1", "S2"}

\* The sessions a connection can be in: no database, a database without a
\* schema, or both.
Sessions ==
    {[db |-> "", schema |-> ""]}
    \cup {[db |-> d, schema |-> ""] : d \in Databases}
    \cup {[db |-> d, schema |-> x] : d \in Databases, x \in Schemas}

\* DataFrames: rows 1..n; a table's earlier content: rows 101, 102, ...
DataFrames == {[i \in 1..n |-> i] : n \in 1..MaxDfRows}
TableContents == {TableOf([i \in 1..n |-> 100 + i]) : n \in 0..MaxTableRows}

\* One statement handed to the driver (or one local step), and whether it
\* succeeded.
Ev(s, ok) == [s |-> s, ok |-> ok]

Issued == {wlog[i].s : i \in 1..Len(wlog)}
Failed == {wlog[i].s : i \in {j \in 1..Len(wlog) : ~wlog[j].ok}}

\* INSERT / COPY INTO / write_pandas(overwrite=False) on a table that may
\* have to be created first.
RowsAdded(t, rows) == TableOf(t.rows \o rows)

\* ------------------------------------------------------- Table.write
IdleWrite ==
    [pc |-> "idle", df |-> <<>>, json |-> FALSE, if_exists |-> "fail",
     method |-> "auto", tableVariant |-> FALSE, tableExists |-> FALSE,
     origDb |-> "", origSchema |-> "", needsRestore |-> FALSE,
     exc |-> "none", result |-> "none", parquet |-> <<>>,
     table0 |-> Absent, sess0 |-> [db |-> "", schema |-> ""],
     cvTable |-> "T", cvCols |-> 0, cv0 |-> Absent, cvOk |-> "none",
     cv |-> <<>>]

\* raise: the call is over with this exception.
Raised(kind) == [w EXCEPT !.pc = "done", !.result = kind]

\* Table.write, lines 72-98: validate if_exists, normalise the method,
\* detect JSON columns, resolve AUTO.  json says whether df has a column of
\* dicts / lists; tableVariant whether the existing table stores that
\* column as VARIANT.
WriteCall ==
    /\ w.pc = "idle"
    /\ \E df \in DataFrames, json \in BOOLEAN, tv \in BOOLEAN,
          ie \in {"fail", "replace", "append", "overwrite"},
          m \in {"auto", "simple", "explicit"} :
          LET call == [IdleWrite EXCEPT
                          !.df = df, !.json = json, !.if_exists = ie,
                          !.tableVariant = tv /\ json /\ tables["T"] # Absent,
                          !.method = IF m = "auto"
                                     THEN IF json THEN "explicit" ELSE "simple"
                                     ELSE m,
                          !.table0 = tables["T"], !.sess0 = sess]
          IN w' = IF ie \notin {"fail", "replace", "append"}
                  THEN [call EXCEPT !.pc = "done", !.result = "ValueError"]
                  ELSE [call EXCEPT !.pc = "exists"]
    /\ UNCHANGED <<tables, sess, stage, wlog>>

\* Table.write, lines 101-108: self.exists() (a SHOW statement), the 'fail'
\* check, and the choice to drop for 'replace'.
WriteExists ==
    /\ w.pc = "exists"
    /\ \E ok \in BOOLEAN :
          /\ wlog' = Append(wlog, Ev("SHOW TABLES", ok))
          /\ w' = IF ~ok THEN Raised("Error")
                  ELSE IF w.if_exists = "fail" /\ tables["T"] # Absent
                  THEN Raised("ValueError")
                  ELSE [w EXCEPT !.tableExists = (tables["T"] # Absent),
                                 !.pc = IF w.if_exists = "replace"
                                           /\ tables["T"] # Absent
                                        THEN "drop" ELSE "resolve"]
    /\ UNCHANGED <<tables, sess, stage>>

\* Table.write, lines 106-108: self.drop() for 'replace'.
WriteDrop ==
    /\ w.pc = "drop"
    /\ \E ok \in BOOLEAN :
          /\ wlog' = Append(wlog, Ev("DROP TABLE", ok))
          /\ tables' = IF ok THEN [tables EXCEPT !["T"] = Absent] ELSE tables
          /\ w' = IF ok THEN [w EXCEPT !.tableExists = FALSE, !.pc = "resolve"]
                  ELSE Raised("Error")
    /\ UNCHANGED <<sess, stage>>

\* Table.write, line 111: resolve_target_schema -- SHOW (and DESCRIBE for
\* an existing table); raises when a statement fails or df has a column
\* the table lacks.
WriteResolve ==
    /\ w.pc = "resolve"
    /\ \E ok \in BOOLEAN :
          /\ wlog' = Append(wlog, Ev("DESCRIBE TABLE", ok))
          /\ w' = IF ok THEN [w EXCEPT !.pc = "save"] ELSE Raised("Error")
    /\ UNCHANGED <<tables, sess, stage>>

\* Table.write, lines 114-120: read the session's database and schema and
\* decide whether the session has to be switched.
WriteSave ==
    /\ w.pc = "save"
    /\ \E ok \in BOOLEAN :
          /\ wlog' = Append(wlog, Ev("SELECT CURRENT_DATABASE/SCHEMA", ok))
          /\ w' = IF ~ok THEN Raised("Error")
                  ELSE LET nr == sess.db # TargetDb \/ sess.schema # TargetSchema
                       IN [w EXCEPT !.origDb = sess.db,
                                    !.origSchema = sess.schema,
                                    !.needsRestore = nr,
                                    !.pc = IF nr THEN "use" ELSE "body"]
    /\ UNCHANGED <<tables, sess, stage>>

\* Table.write, lines 122-126: USE SCHEMA <target>, outside the try.
WriteUse ==
    /\ w.pc = "use"
    /\ \E ok \in BOOLEAN :
          /\ wlog' = Append(wlog, Ev("USE SCHEMA target", ok))
          /\ sess' = IF ok THEN [db |-> TargetDb, schema |-> TargetSchema]
                     ELSE sess
          /\ w' = IF ok THEN [w EXCEPT !.pc = "body"] ELSE Raised("Error")
    /\ UNCHANGED <<tables, stage>>

\* Table.write, lines 128-132: dispatch on the method.
WriteBody ==
    /\ w.pc = "body"
    /\ w' = [w EXCEPT !.pc = IF w.method = "explicit"
                             THEN IF w.tableExists THEN "x_stage" ELSE "x_create"
                             ELSE "s_prepare"]
    /\ UNCHANGED <<tables, sess, stage, wlog>>

\* A write that forgets to restore the session.
WriteRestore_never ==
    /\ w.pc = "restore"
    /\ w' = [w EXCEPT !.pc = "done",
                      !.result = IF w.exc = "none" THEN "returned" ELSE w.exc]
    /\ UNCHANGED <<tables, sess, stage, wlog>>

\* Table.write, lines 133-140: the finally block.  USE SCHEMA <original>
\* when both were set, USE DATABASE <original> when only the database was,
\* nothing otherwise.  USE DATABASE makes PUBLIC the current schema when
\* the database has one, and leaves the session without a schema otherwise.
\* An exception of the restoring statement replaces the pending one.
WriteRestore ==
    /\ w.pc = "restore"
    /\ IF w.needsRestore /\ w.origDb # "" /\ w.origSchema # ""
       THEN \E ok \in BOOLEAN :
               /\ wlog' = Append(wlog, Ev("USE SCHEMA original", ok))
               /\ sess' = IF ok THEN [db |-> w.origDb, schema |-> w.origSchema]
                          ELSE sess
               /\ w' = [w EXCEPT !.pc = "done",
                                 !.result = IF ~ok THEN "Error"
                                            ELSE IF w.exc = "none"
                                            THEN "returned" ELSE w.exc]
       ELSE IF w.needsRestore /\ w.origDb # ""
       THEN \E ok \in BOOLEAN, public \in {"PUBLIC", ""} :
               /\ wlog' = Append(wlog, Ev("USE DATABASE original", ok))
               /\ sess' = IF ok THEN [db |-> w.origDb, schema |-> public]
                          ELSE sess
               /\ w' = [w EXCEPT !.pc = "done",
                                 !.result = IF ~ok THEN "Error"
                                            ELSE IF w.exc = "none"
                                            THEN "returned" ELSE w.exc]
       ELSE /\ w' = [w EXCEPT !.pc = "done",
                              !.result = IF w.exc = "none"
                                         THEN "returned" ELSE w.exc]
            /\ UNCHANGED <<sess, wlog>>
    /\ UNCHANGED <<tables, stage>>

\* ------------------------------------------- Table._write_explicit
\* lines 268-274: CREATE TABLE when the table does not exist; this is
\* before the try, so a failure leaves without touching the stage.
XCreate ==
    /\ w.pc = "x_create"
    /\ \E ok \in BOOLEAN :
          /\ wlog' = Append(wlog, Ev("CREATE TABLE", ok))
          /\ tables' = IF ok THEN [tables EXCEPT !["T"] = TableOf(<<>>)] ELSE tables
          /\ w' = IF ok THEN [w EXCEPT !.pc = "x_stage"]
                  ELSE [w EXCEPT !.pc = "restore", !.exc = "Error"]
    /\ UNCHANGED <<sess, stage>>

\* lines 286-287: temp_stage.create(if_not_exists=True), first in the try.
XStage ==
    /\ w.pc = "x_stage"
    /\ \E ok \in BOOLEAN :
          /\ wlog' = Append(wlog, Ev("CREATE STAGE", ok))
          /\ stage' = IF ok THEN [exists |-> TRUE, files |-> <<>>] ELSE stage
          /\ w' = IF ok THEN [w EXCEPT !.pc = "x_parquet"]
                  ELSE [w EXCEPT !.pc = "x_dropstage", !.exc = "Error"]
    /\ UNCHANGED <<tables, sess>>

\* A to_parquet whose failure leaves the function without the cleanup.
XParquet_no_finally ==
    /\ w.pc = "x_parquet"
    /\ \E ok \in BOOLEAN :
          /\ wlog' = Append(wlog, Ev("to_parquet", ok))
          /\ w' = IF ok THEN [w EXCEPT !.pc = "x_put", !.parquet = w.df]
                  ELSE [w EXCEPT !.pc = "restore", !.exc = "Error"]
    /\ UNCHANGED <<tables, sess, stage>>

\* lines 290-298: df.to_parquet into a temporary directory.
XParquet ==
    /\ w.pc = "x_parquet"
    /\ \E ok \in BOOLEAN :
          /\ wlog' = Append(wlog, Ev("to_parquet", ok))
          /\ w' = IF ok THEN [w EXCEPT !.pc = "x_put", !.parquet = w.df]
                  ELSE [w EXCEPT !.pc = "x_dropstage", !.exc = "Error"]
    /\ UNCHANGED <<tables, sess, stage>>

\* lines 301-306 with Stage.load (stage.py 194-225): one PUT; an exception
\* of the PUT is caught and recorded as an ERROR entry of the returned
\* list, which _write_explicit does not look at.
XPut ==
    /\ w.pc = "x_put"
    /\ \E ok \in BOOLEAN :
          /\ wlog' = Append(wlog, Ev("PUT", ok))
          /\ stage' = IF ok THEN [stage EXCEPT !.files = w.parquet] ELSE stage
          /\ w' = [w EXCEPT !.pc = "x_copy"]
    /\ UNCHANGED <<tables, sess>>

\* lines 308-337: COPY INTO the target from the stage: loads the rows of
\* the files the stage holds.
XCopy ==
    /\ w.pc = "x_copy"
    /\ \E ok \in BOOLEAN :
          /\ wlog' = Append(wlog, Ev("COPY INTO", ok))
          /\ tables' = IF ok
                       THEN [tables EXCEPT !["T"] = RowsAdded(@, stage.files)]
                       ELSE tables
          /\ w' = IF ok THEN [w EXCEPT !.pc = "x_dropstage"]
                  ELSE [w EXCEPT !.pc = "x_dropstage", !.exc = "Error"]
    /\ UNCHANGED <<sess, stage>>

\* lines 339-344: finally: temp_stage.drop(if_exists=True), its own
\* exception swallowed.
XDropStage ==
    /\ w.pc = "x_dropstage"
    /\ \E ok \in BOOLEAN :
          /\ wlog' = Append(wlog, Ev("DROP STAGE", ok))
          /\ stage' = IF ok THEN [exists |-> FALSE, files |-> <<>>] ELSE stage
          /\ w' = [w EXCEPT !.pc = "restore"]
    /\ UNCHANGED <<tables, sess>>

\* --------------------------------------------- Table._write_simple
\* lines 158-174: serialise JSON columns; for JSON columns of an existing
\* table, look up which of them are VARIANT there.
SPrepare ==
    /\ w.pc = "s_prepare"
    /\ w' = [w EXCEPT !.pc = IF w.json /\ w.tableExists
                             THEN "s_variant" ELSE "s_write"]
    /\ UNCHANGED <<tables, sess, stage, wlog>>

\* lines 169-172 with _get_variant_columns (34-46): SHOW + DESCRIBE.
SVariant ==
    /\ w.pc = "s_variant"
    /\ \E ok \in BOOLEAN :
          /\ wlog' = Append(wlog, Ev("DESCRIBE TABLE", ok))
          /\ w' = IF ~ok THEN [w EXCEPT !.pc = "restore", !.exc = "Error"]
                  ELSE [w EXCEPT !.pc = IF w.tableVariant
                                        THEN "t_write" ELSE "s_write"]
    /\ UNCHANGED <<tables, sess, stage>>

\* lines 180-194: write_pandas(auto_create_table=True, overwrite=False) into
\* the target, then the VARIANT conversion for JSON columns of a new table.
SWrite ==
    /\ w.pc = "s_write"
    /\ \E ok \in BOOLEAN :
          /\ wlog' = Append(wlog, Ev("write_pandas", ok))
          /\ tables' = IF ok
                       THEN [tables EXCEPT !["T"] = RowsAdded(@, w.df)]
                       ELSE tables
          /\ w' = IF ~ok THEN [w EXCEPT !.pc = "restore", !.exc = "Error"]
                  ELSE IF w.json /\ ~w.tableExists
                  THEN [w EXCEPT !.pc = "cv_columns", !.cvTable = "T"]
                  ELSE [w EXCEPT !.pc = "restore"]
    /\ UNCHANGED <<sess, stage>>

\* _write_simple_via_temp, lines 216-229: write_pandas into a temporary
\* table, which is then converted.
TWrite ==
    /\ w.pc = "t_write"
    /\ \E ok \in BOOLEAN :
          /\ wlog' = Append(wlog, Ev("write_pandas TMP", ok))
          /\ tables' = IF ok
                       THEN [tables EXCEPT !["TMP"] = RowsAdded(@, w.df)]
                       ELSE tables
          /\ w' = IF ok THEN [w EXCEPT !.pc = "cv_columns", !.cvTable = "TMP"]
                  ELSE [w EXCEPT !.pc = "t_drop", !.exc = "Error"]
    /\ UNCHANGED <<sess, stage>>

\* lines 238-242: finally: temp_table.drop(if_exists=True), swallowed.
TDrop ==
    /\ w.pc = "t_drop"
    /\ \E ok \in BOOLEAN :
          /\ wlog' = Append(wlog, Ev("DROP TABLE TMP", ok))
          /\ tables' = IF ok THEN [tables EXCEPT !["TMP"] = Absent] ELSE tables
          /\ w' = [w EXCEPT !.pc = "restore"]
    /\ UNCHANGED <<sess, stage>>

\* ------------------------------- Table._convert_columns_to_variant
\* Where the conversion returns to when it raised: the caller's handler.
CvReturn(ok) ==
    IF w.cvTable = "T"
    THEN IF ok THEN [w EXCEPT !.pc = "restore", !.cvOk = "ok"]
         ELSE [w EXCEPT !.pc = "restore", !.exc = "Error", !.cvOk = "failed"]
    ELSE IF ok THEN [w EXCEPT !.pc = "t_drop", !.cvOk = "ok"]
         ELSE [w EXCEPT !.pc = "t_drop", !.exc = "Error", !.cvOk = "failed"]

\* lines 352-381: self.columns (a SHOW COLUMNS statement) and the
\* identifier checks, before the try.  cv0 remembers the table as the
\* conversion found it.
CvColumns ==
    /\ w.pc = "cv_columns"
    /\ \E ok \in BOOLEAN, n \in 1..MaxColumns :
          /\ wlog' = Append(wlog, Ev("SHOW COLUMNS", ok))
          /\ w' = IF ok
                  THEN [w EXCEPT !.pc = "cv_try", !.cvCols = n,
                                 !.cv0 = tables[w.cvTable]]
                  ELSE [CvReturn(FALSE) EXCEPT !.cvCols = n,
                                               !.cv0 = tables[w.cvTable]]
    /\ UNCHANGED <<tables, sess, stage>>

\* The columns of the table, in order.
ColumnNames == <<"c1", "c2", "c3", "c4">>

\* execute_sql handing the bindings it is given to the cursor.
execute_sql_params_bound(bindings) == bindings

\* execute_sql(sql, context, **overrides): a `bindings=` keyword lands in
\* overrides, which only serve to build a context from a profile name;
\* the statement is executed as cursor.execute(sql), without parameters.
execute_sql_params(bindings) == <<>>

\* What the driver can answer to a statement with p placeholders executed
\* with these parameters: one with a placeholder left unbound fails.
Outcomes(p, params) == IF Len(params) < p THEN {FALSE} ELSE BOOLEAN

\* The statements of lines 386-401 (1 to 4) and of the handler, lines
\* 406-410 (5), for a table of n columns: the text, the number of its
\* IDENTIFIER(%s) placeholders and the bindings= it is called with.
CvStmt(i, n) ==
    CASE i = 1 -> [s |-> "CREATE TEMPORARY TABLE AS", p |-> 1 + n,
                   given |-> <<"temp_table">> \o SubSeq(ColumnNames, 1, n)]
      [] i = 2 -> [s |-> "DROP TABLE converted", p |-> 0, given |-> <<>>]
      [] i = 3 -> [s |-> "CREATE TABLE AS", p |-> 1,
                   given |-> <<"temp_table">>]
      [] i = 4 -> [s |-> "DROP TABLE CVT", p |-> 1,
                   given |-> <<"temp_table">>]
      [] i = 5 -> [s |-> "DROP TABLE IF EXISTS CVT", p |-> 1,
                   given |-> <<"temp_table">>]

\* The warehouse after statement i has succeeded on the tables t.
CvApply(i, t, target) ==
    CASE i = 1 -> IF t[target] # Absent
                  THEN [t EXCEPT !["CVT"] = t[target]] ELSE t
      [] i = 2 -> [t EXCEPT ![target] = Absent]
      [] i = 3 -> IF t["CVT"] # Absent
                  THEN [t EXCEPT ![target] = t["CVT"]] ELSE t
      [] i = 4 -> [t EXCEPT !["CVT"] = Absent]
      [] i = 5 -> [t EXCEPT !["CVT"] = Absent]

\* ... after the first j statements of the try block have succeeded.
RECURSIVE CvAfter(_, _, _)
CvAfter(j, t, target) ==
    IF j = 0 THEN t ELSE CvApply(j, CvAfter(j - 1, t, target), target)

\* What execute_sql is recorded to have done with statement i.
CvIssued(i, n) ==
    [s |-> CvStmt(i, n).s, p |-> CvStmt(i, n).p, given |-> CvStmt(i, n).given,
     params |-> execute_sql_params(CvStmt(i, n).given)]

\* lines 385-413: the try block, statement by statement until the first
\* one that fails (k; 5 when none does), then the handler's DROP TABLE IF
\* EXISTS, whose failure is swallowed, and the re-raise.  A conversion of
\* the temporary table of _write_simple_via_temp that completes is
\* followed by that method's INSERT INTO (lines 231-234).
CvTry ==
    /\ w.pc = "cv_try"
    /\ \E k \in 1..5, c \in BOOLEAN, ins \in BOOLEAN :
          LET n == w.cvCols
              can(i, ok) ==
                  ok \in Outcomes(CvStmt(i, n).p,
                                  execute_sql_params(CvStmt(i, n).given))
              ran == IF k = 5 THEN 4 ELSE k
              tried == CvAfter(k - 1, tables, w.cvTable)
              insert == k = 5 /\ w.cvTable = "TMP"
          IN  /\ \A i \in 1..(k - 1) : can(i, TRUE)
              /\ k <= 4 => can(k, FALSE) /\ can(5, c)
              /\ k = 5 => c
              /\ ~insert => ins
              /\ wlog' = wlog
                         \o [i \in 1..ran |-> Ev(CvStmt(i, n).s, i < k)]
                         \o (IF k <= 4 THEN <<Ev(CvStmt(5, n).s, c)>>
                             ELSE <<>>)
                         \o (IF insert THEN <<Ev("INSERT INTO", ins)>>
                             ELSE <<>>)
              /\ tables' =
                    IF k <= 4
                    THEN IF c THEN CvApply(5, tried, w.cvTable) ELSE tried
                    ELSE IF insert /\ ins /\ tried["TMP"] # Absent
                    THEN [tried EXCEPT
                             !["T"] = RowsAdded(@, tried["TMP"].rows)]
                    ELSE tried
              /\ w' = [(IF insert /\ ~ins
                        THEN [CvReturn(TRUE) EXCEPT !.exc = "Error"]
                        ELSE CvReturn(k = 5))
                       EXCEPT !.cv = [i \in 1..ran |-> CvIssued(i, n)]
                                     \o (IF k <= 4 THEN <<CvIssued(5, n)>>
                                         ELSE <<>>)]
    /\ UNCHANGED <<sess, stage>>

\* ------------------------------------------------------- write_table
\* str.upper() on the table names of the model.
Upper(n) == IF n = "t" THEN "T" ELSE n

\* The table an identifier names in a SQL statement: unquoted, it is
\* resolved in upper case; quoted, as spelled.
Unquoted(n) == Upper(n)
Quoted(n) == n

IdleWriteTable ==
    [pc |-> "idle", df |-> <<>>, mode |-> "replace", table |-> "T",
     uppercase_table |-> TRUE, table_name |-> "T", result |-> "none",
     tables0 |-> [n \in TableNames |-> Absent]]

WtRaised(kind) == [wt EXCEPT !.pc = "done", !.result = kind]

\* write_table, lines 120-155: validate the mode, upper-case the names when
\* asked to, and pick the first statement by mode.
WtCall ==
    /\ wt.pc = "idle"
    /\ \E df \in DataFrames, t \in {"T", "t"}, up \in BOOLEAN,
          mode \in {"append", "replace", "fail", "overwrite"} :
          LET call == [IdleWriteTable EXCEPT
                          !.df = df, !.mode = mode, !.table = t,
                          !.uppercase_table = up,
                          !.table_name = IF up THEN Upper(t) ELSE t,
                          !.tables0 = tables]
          IN wt' = IF mode \notin {"append", "replace", "fail"}
                   THEN [call EXCEPT !.pc = "done", !.result = "ValueError"]
                   ELSE [call EXCEPT !.pc = CASE mode = "replace" -> "wt_drop"
                                             [] mode = "fail" -> "wt_check"
                                             [] OTHER -> "wt_write"]
    /\ UNCHANGED <<tables, wlog>>

\* A 'replace' that leaves the dropping to write_pandas, which is called
\* with overwrite=False.
WtDrop_keeps_table ==
    /\ wt.pc = "wt_drop"
    /\ wt' = [wt EXCEPT !.pc = "wt_write"]
    /\ UNCHANGED <<tables, wlog>>

\* write_table, lines 147-149: DROP TABLE IF EXISTS <db>.<schema>.<table>,
\* the name unquoted.
WtDrop ==
    /\ wt.pc = "wt_drop"
    /\ \E ok \in BOOLEAN :
          /\ wlog' = Append(wlog, Ev("DROP TABLE IF EXISTS", ok))
          /\ tables' = IF ok
                       THEN [tables EXCEPT ![Unquoted(wt.table_name)] = Absent]
                       ELSE tables
          /\ wt' = IF ok THEN [wt EXCEPT !.pc = "wt_write"] ELSE WtRaised("Error")

\* write_table, lines 150-155 with table_exists / list_tables
\* (metadata.py 115-181): SHOW TABLES, then a case-insensitive search of
\* the names; ProgrammingError when the table is there.
WtCheck ==
    /\ wt.pc = "wt_check"
    /\ \E ok \in BOOLEAN :
          /\ wlog' = Append(wlog, Ev("SHOW TABLES", ok))
          /\ wt' = IF ~ok THEN WtRaised("Error")
                   ELSE IF \E n \in {"T", "t"} :
                              /\ tables[n] # Absent
                              /\ Upper(n) = Upper(wt.table_name)
                   THEN WtRaised("ProgrammingError")
                   ELSE [wt EXCEPT !.pc = "wt_write"]
    /\ UNCHANGED tables

\* write_table, lines 157-176: write_pandas(auto_create_table=True,
\* overwrite=False) with quote_identifiers left at its default (True), so
\* the table is the one named as spelled; then return True.
WtWrite ==
    /\ wt.pc = "wt_write"
    /\ \E ok \in BOOLEAN :
          /\ wlog' = Append(wlog, Ev("write_pandas", ok))
          /\ tables' = IF ok
                       THEN [tables EXCEPT ![Quoted(wt.table_name)] =
                                              RowsAdded(@, wt.df)]
                       ELSE tables
          /\ wt' = IF ok THEN [wt EXCEPT !.pc = "done", !.result = "returned"]
                   ELSE WtRaised("Error")

\* The warehouse a write_table call may find: the table may exist under
\* its upper-case name, under a quoted lower-case name, both or neither.
InitWriteTable ==
    /\ \E a, b \in TableContents \cup {Absent} :
          tables = [n \in TableNames |->
                       IF n = "T" THEN a ELSE IF n = "t" THEN b ELSE Absent]
    /\ sess \in {[db |-> TargetDb, schema |-> TargetSchema]}
    /\ stage = [exists |-> FALSE, files |-> <<>>]
    /\ w = IdleWrite
    /\ wlog = <<>>
    /\ wt = IdleWriteTable

\* One call of write_table, statement by statement.
WriteTableStep ==
    \/ WtCall
    \/ WtDrop
    \/ WtCheck
    \/ WtWrite

\* Another session of the same warehouse creating a table that does not
\* exist, at any moment of the call: nothing in write_table (data.py
\* 146-174) or table_exists (metadata.py 143-181) holds a lock or opens a
\* transaction around the check and the write.
OtherSessionCreate ==
    /\ \E n \in {"T", "t"}, c \in TableContents :
          /\ tables[n] = Absent
          /\ tables' = [tables EXCEPT ![n] = c]
    /\ UNCHANGED <<wt, wlog>>

\* One call of write_table while other sessions use the warehouse.
WriteTableRaceStep ==
    \/ WriteTableStep
    \/ OtherSessionCreate

\* No write in progress, on an empty warehouse.
NoWrite ==
    /\ tables = [n \in TableNames |-> Absent]
    /\ sess = [db |-> "", schema |-> ""]
    /\ stage = [exists |-> FALSE, files |-> <<>>]
    /\ w = IdleWrite
    /\ wlog = <<>>
    /\ wt = IdleWriteTable

\* The warehouse and session a Table.write call may find.
InitWrite ==
    /\ \E t \in TableContents \cup {Absent} :
          tables = [n \in TableNames |-> IF n = "T" THEN t ELSE Absent]
    /\ sess \in Sessions
    /\ stage = [exists |-> FALSE, files |-> <<>>]
    /\ w = IdleWrite
    /\ wlog = <<>>
    /\ wt = IdleWriteTable

\* One call of Table.write, statement by statement.
WriteStep ==
    \/ WriteCall
    \/ WriteExists
    \/ WriteDrop
    \/ WriteResolve
    \/ WriteSave
    \/ WriteUse
    \/ WriteBody
    \/ XCreate
    \/ XStage
    \/ XParquet
    \/ XPut
    \/ XCopy
    \/ XDropStage
    \/ SPrepare
    \/ SVariant
    \/ SWrite
    \/ TWrite
    \/ TDrop
    \/ CvColumns
    \/ CvTry
    \/ WriteRestore

InitExec ==
    /\ curResult = <<>>
    /\ execPc = [t \in Callers |-> "idle"]
    /\ execCur = [t \in Callers |-> None]
    /\ execSql = [t \in Callers |-> NoQuery]
    /\ execRows = [t \in Callers |-> <<>>]

\* Callers that run queries on one shared context and fetch from the
\* results whenever they get to it.
ExecStep ==
    \/ CtxInit /\ UNCHANGED <<execVars, valLog>>
    \/ RunGetCursor
    \/ RunExecute /\ UNCHANGED valLog
    \/ ResultFetch /\ UNCHANGED valLog

vars == <<lifecycleVars, execVars, writeVars, wt, sessionVars, jobVars,
        configVars, authVars, valInputs, valLog, fqnVars, rtnVars, listVars,
        boundVars, readVars, sessionExecVars, faultVars, leakVars>>

\* A profile that declares none of the four keys, in a session whose
\* warehouse is the one the override asks for.
NoValidate ==
    /\ profileCfg = [k \in ValKeySet |-> Undeclared]
    /\ sessActual = [k \in ValKeySet |-> IF k = "warehouse" THEN "WH2" ELSE Null]
    /\ warned = <<>>
    /\ valQueries = <<>>

\* Profiles and sessions of every kind.
InitValidate ==
    /\ profileCfg \in [ValKeySet -> DeclaredValues]
    /\ sessActual \in [ValKeySet -> ActualValues]
    /\ warned = <<>>
    /\ valQueries = <<>>

\* conn = snowflake.connector.connect(...), by the caller itself.
UserVendorConnect ==
    /\ ctx = NoCtx
    /\ Len(vconns) + 1 < MaxVendorConns
    /\ vconns' = VendorConnect(vconns)
    /\ lastOp' = [op |-> "vendor.connect", k |-> None, ret |-> <<Len(vconns')>>]
    /\ UNCHANGED <<vcurs, connectors, ctx, withBlock>>

\* A context opened, closed and opened again, from a profile or around a
\* connection the caller opened.
ValidateStep ==
    \/ UserVendorConnect /\ UNCHANGED valLog
    \/ CtxInit /\ UNCHANGED valLog
    \/ CtxConnection
    \/ CtxClose /\ UNCHANGED valLog

InitLater ==
    /\ NoRtn
    /\ NoList
    /\ NoBound
    /\ NoRead
    /\ NoSessionExec
    /\ NoConn
    /\ NoLeak

\* What the specifications below do not use stays as constructed.
InitRest ==
    /\ InitSession /\ InitJob /\ NoConfig /\ NoAuth /\ NoValidate
    /\ NoFqn /\ InitLater

Init == InitLifecycle /\ InitExec /\ NoWrite /\ InitRest

InitFiles ==
    /\ InitLifecycle /\ InitExec /\ NoWrite
    /\ InitSession /\ InitJob /\ InitConfig /\ NoAuth /\ NoValidate
    /\ NoFqn /\ InitLater

InitKeys ==
    /\ InitLifecycle /\ InitExec /\ NoWrite
    /\ InitSession /\ InitJob /\ NoConfig /\ InitAuth /\ NoValidate
    /\ NoFqn /\ InitLater

InitProfiles ==
    /\ InitLifecycle /\ InitExec /\ NoWrite
    /\ InitSession /\ InitJob /\ NoConfig /\ NoAuth /\ InitValidate
    /\ NoFqn /\ InitLater

InitWarehouse == InitLifecycle /\ InitExec /\ InitWrite /\ InitRest

InitWarehouseTable == InitLifecycle /\ InitExec /\ InitWriteTable /\ InitRest

NextConnector ==
    /\ ConnectorStep
    /\ UNCHANGED <<execVars, writeVars, wt, sessionVars, jobVars, configVars,
                   authVars, valInputs, valLog, fqnVars, rtnVars, listVars,
                   boundVars, readVars, sessionExecVars, faultVars, leakVars>>

NextContext ==
    /\ ContextStep
    /\ UNCHANGED <<execVars, writeVars, wt, sessionVars, jobVars, configVars,
                   authVars, valInputs, fqnVars, rtnVars, listVars,
                   boundVars, readVars, sessionExecVars, faultVars, leakVars>>

NextExec ==
    /\ ExecStep
    /\ UNCHANGED <<writeVars, wt, sessionVars, jobVars, configVars, authVars,
                   valInputs, fqnVars, rtnVars, listVars, boundVars,
                   readVars, sessionExecVars, faultVars, leakVars>>

NextWrite ==
    /\ WriteStep
    /\ UNCHANGED <<lifecycleVars, execVars, wt, sessionVars, jobVars,
                   configVars, authVars, valInputs, valLog, fqnVars, rtnVars,
                   listVars, boundVars, readVars, sessionExecVars, faultVars,
                   leakVars>>

NextWriteTable ==
    /\ WriteTableStep
    /\ UNCHANGED <<lifecycleVars, execVars, sess, stage, w, sessionVars,
                   jobVars, configVars, authVars, valInputs, valLog, fqnVars,
                   rtnVars, listVars, boundVars, readVars, sessionExecVars,
                   faultVars, leakVars>>

NextSession ==
    /\ SessionStep
    /\ UNCHANGED <<execVars, writeVars, wt, jobVars, configVars, authVars,
                   valInputs, fqnVars, rtnVars, listVars, boundVars,
                   readVars, sessionExecVars, faultVars, leakVars>>

NextJob ==
    /\ JobStep
    /\ UNCHANGED <<lifecycleVars, execVars, writeVars, wt, sessionVars,
                   configVars, authVars, valInputs, valLog, fqnVars, rtnVars,
                   listVars, boundVars, readVars, sessionExecVars, faultVars,
                   leakVars>>

NextConfig ==
    /\ ConfigStep
    /\ UNCHANGED <<lifecycleVars, execVars, writeVars, wt, sessionVars,
                   jobVars, authVars, valInputs, valLog, fqnVars, rtnVars,
                   listVars, boundVars, readVars, sessionExecVars, faultVars,
                   leakVars>>

NextAuth ==
    /\ AuthStep
    /\ UNCHANGED <<lifecycleVars, execVars, writeVars, wt, sessionVars,
                   jobVars, configVars, valInputs, valLog, fqnVars, rtnVars,
                   listVars, boundVars, readVars, sessionExecVars, faultVars,
                   leakVars>>

NextValidate ==
    /\ ValidateStep
    /\ UNCHANGED <<execVars, writeVars, wt, sessionVars, jobVars, configVars,
                   authVars, valInputs, fqnVars, rtnVars, listVars,
                   boundVars, readVars, sessionExecVars, faultVars, leakVars>>

NextFqn ==
    /\ FqnStep
    /\ UNCHANGED <<lifecycleVars, execVars, writeVars, wt, sessionVars,
                   jobVars, configVars, authVars, valInputs, valLog, rtnVars,
                   listVars, boundVars, readVars, sessionExecVars, faultVars,
                   leakVars>>

NextRtn ==
    /\ RtnStep
    /\ UNCHANGED <<lifecycleVars, execVars, writeVars, wt, sessionVars,
                   jobVars, configVars, authVars, valInputs, valLog, fqnVars,
                   listVars, boundVars, readVars, sessionExecVars, faultVars,
                   leakVars>>

NextList ==
    /\ ListStep
    /\ UNCHANGED <<lifecycleVars, execVars, writeVars, wt, sessionVars,
                   jobVars, configVars, authVars, valInputs, valLog, fqnVars,
                   rtnVars, boundVars, readVars, sessionExecVars, faultVars,
                   leakVars>>

NextBound ==
    /\ BoundStep
    /\ UNCHANGED <<lifecycleVars, execVars, writeVars, wt, sessionVars,
                   jobVars, configVars, authVars, valInputs, valLog, fqnVars,
                   rtnVars, listVars, readVars, sessionExecVars, faultVars,
                   leakVars>>

NextRead ==
    /\ ReadStep
    /\ UNCHANGED <<lifecycleVars, execVars, writeVars, wt, sessionVars,
                   jobVars, configVars, authVars, valInputs, valLog, fqnVars,
                   rtnVars, listVars, boundVars, sessionExecVars, faultVars,
                   leakVars>>

NextSessionExec ==
    /\ SessionExecStep
    /\ UNCHANGED <<lifecycleVars, execVars, writeVars, wt, sessionVars,
                   jobVars, configVars, authVars, valInputs, valLog, fqnVars,
                   rtnVars, listVars, boundVars, readVars, faultVars,
                   leakVars>>

NextWriteTableRace ==
    /\ WriteTableRaceStep
    /\ UNCHANGED <<lifecycleVars, execVars, sess, stage, w, sessionVars,
                   jobVars, configVars, authVars, valInputs, valLog, fqnVars,
                   rtnVars, listVars, boundVars, readVars, sessionExecVars,
                   faultVars, leakVars>>

NextFault ==
    /\ FaultStep
    /\ UNCHANGED <<lifecycleVars, execVars, writeVars, wt, sessionVars,
                   jobVars, configVars, authVars, valInputs, valLog, fqnVars,
                   rtnVars, listVars, boundVars, readVars, sessionExecVars,
                   leakVars>>

NextLeak ==
    /\ LeakStep
    /\ UNCHANGED <<lifecycleVars, execVars, writeVars, wt, sessionVars,
                   jobVars, configVars, authVars, valInputs, valLog, fqnVars,
                   rtnVars, listVars, boundVars, readVars, sessionExecVars,
                   faultVars>>

SpecConnector == Init /\ [][NextConnector]_vars

SpecContext == Init /\ [][NextContext]_vars

SpecExec == Init /\ [][NextExec]_vars

SpecWrite == InitWarehouse /\ [][NextWrite]_vars

SpecWriteTable == InitWarehouseTable /\ [][NextWriteTable]_vars

SpecWriteTableRace == InitWarehouseTable /\ [][NextWriteTableRace]_vars

SpecSession == Init /\ [][NextSession]_vars

SpecJob == Init /\ [][NextJob]_vars

SpecConfig == InitFiles /\ [][NextConfig]_vars

SpecAuth == InitKeys /\ [][NextAuth]_vars

SpecValidate == InitProfiles /\ [][NextValidate]_vars

SpecFqn == Init /\ [][NextFqn]_vars

SpecRtn == Init /\ [][NextRtn]_vars

SpecList == Init /\ [][NextList]_vars

SpecBound == Init /\ [][NextBound]_vars

SpecRead == Init /\ [][NextRead]_vars

SpecSessionExec == Init /\ [][NextSessionExec]_vars

SpecFault == Init /\ [][NextFault]_vars

SpecLeak == Init /\ [][NextLeak]_vars

\* ------------------------------------------------------------- claims

\* C7: a connector opens no vendor connection when constructed (or after a
\* close()); once connect() has been called since then, exactly one
\* connection with one cursor has been opened, however many times connect()
\* was called, and connect() returns the connection and cursor held.
C7_ConnectIsLazyAndOpensOnce ==
    /\ \A k \in 1..Len(connectors) :
          LET c == connectors[k]
          IN /\ c.connectCalls = 0 =>
                   (c.opens = 0 /\ c.conn = None /\ c.cur = None)
             /\ c.connectCalls > 0 =>
                   /\ c.opens = 1
                   /\ c.conn \in 1..Len(vconns)
                   /\ c.cur \in 1..Len(vcurs)
                   /\ vcurs[c.cur].conn = c.conn
    /\ lastOp.op \in {"connector.connect", "with.enter"} =>
          lastOp.ret = <<connectors[lastOp.k].conn, connectors[lastOp.k].cur>>
    /\ Len(vconns) =
          Cardinality({i \in 1..Len(vconns) : vconns[i].closeCalls > 0})
          + Cardinality({k \in 1..Len(connectors) : connectors[k].conn # None})

\* A second connect() with no close() in between has just returned.
C7_Witness ==
    /\ lastOp.op = "connector.connect"
    /\ connectors[lastOp.k].connectCalls = 2
    /\ connectors[lastOp.k].opens = 1

\* C8: when a `with SnowflakeConnector(...)` block has just been left,
\* normally or by an exception of the body, the connection and the cursor
\* __enter__ returned have each been closed exactly once, no vendor object
\* was closed twice, the connector holds neither a connection nor a cursor,
\* and the exception propagates exactly when the body raised one.
C8_WithBlockClosesOnce ==
    lastOp.op = "with.exit" =>
       /\ vconns[withBlock.conn].closeCalls = 1
       /\ vcurs[withBlock.cur].closeCalls = 1
       /\ \A i \in 1..Len(vconns) : vconns[i].closeCalls <= 1
       /\ \A i \in 1..Len(vcurs) : vcurs[i].closeCalls <= 1
       /\ connectors[withBlock.k].conn = None
       /\ connectors[withBlock.k].cur = None
       /\ withBlock.propagated = withBlock.bodyRaised

\* The block was left by an exception of its body.
C8_Witness ==
    /\ lastOp.op = "with.exit"
    /\ withBlock.bodyRaised
    /\ withBlock.propagated
    /\ vconns[withBlock.conn].closeCalls = 1

C9_Cached ==
    ctx.kind = "profile" =>
       /\ ctx.conn = None =>
             (ctx.created = 0 /\ ctx.connector = None /\ ctx.cur = None)
       /\ ctx.conn # None =>
             /\ ctx.created = 1
             /\ ctx.connector \in 1..Len(connectors)
             /\ LET c == connectors[ctx.connector]
                IN /\ c.owner = "ctx"
                   /\ c.profile = ctx.profile
                   /\ c.overrides = ctx.overrides
                   /\ c.connectCalls = 1
                   /\ c.conn = ctx.conn
       /\ lastOp.op = "ctx.connection" => lastOp.ret = <<ctx.conn>>
       /\ lastOp.op = "ctx.cursor" => lastOp.ret = <<ctx.cur>>

C9_AccessKeepsCache ==
    (/\ ctx.kind = "profile"
     /\ ctx.conn # None
     /\ lastOp'.op \in {"ctx.connection", "ctx.cursor"})
    => /\ ctx' = ctx
       /\ connectors' = connectors
       /\ vconns' = vconns
       /\ vcurs' = vcurs

\* C9: a profile-based context has no connector until `connection` is first
\* accessed; while it holds a connection it has created exactly one
\* connector, built from its profile and overrides, and called its connect()
\* once; an access to `connection` or `cursor` while a connection is held
\* returns the cached object and creates or opens nothing.
C9_ContextConnectsLazilyOnce ==
    []C9_Cached /\ [][C9_AccessKeepsCache]_vars

\* the cursor was accessed while the connection was already cached.
C9_Witness ==
    /\ ctx.kind = "profile"
    /\ lastOp.op = "ctx.cursor"
    /\ ctx.created = 1
    /\ Len(connectors) = 1
    /\ Len(vcurs) = 1

\* C10: close() on a context built from an external connection changes
\* neither the vendor objects nor the context's references, whatever was
\* done with the context before; and any close() of the context only ever
\* closes objects held by a connector the context created itself.
C10_CloseLeavesExternalConnection ==
    [][lastOp'.op = "ctx.close" =>
          /\ ctx.kind = "external" =>
                (ctx' = ctx /\ vconns' = vconns /\ vcurs' = vcurs
                   /\ connectors' = connectors)
          /\ \A k \in 1..Len(connectors) :
                connectors'[k] # connectors[k] => connectors[k].owner = "ctx"
          /\ \A i \in 1..Len(vconns) :
                vconns'[i] # vconns[i] =>
                   \E k \in 1..Len(connectors) :
                      connectors[k].owner = "ctx" /\ connectors[k].conn = i
          /\ \A i \in 1..Len(vcurs) :
                vcurs'[i] # vcurs[i] =>
                   \E k \in 1..Len(connectors) :
                      connectors[k].owner = "ctx" /\ connectors[k].cur = i
    ]_vars

\* close() was called on an external-connection context that had opened a
\* cursor of its own on the connection it was given; all is still open.
C10_Witness ==
    /\ ctx.kind = "external"
    /\ lastOp.op = "ctx.close"
    /\ ctx.cur # None
    /\ vconns[ctx.conn].closeCalls = 0
    /\ vcurs[ctx.cur].closeCalls = 0
    /\ \E k \in 1..Len(connectors) :
          connectors[k].conn = ctx.conn /\ connectors[k].cur # ctx.cur

\* C1: every query runs on a cursor of its own: two callers that hold a
\* QueryResult never hold the same cursor, and what a caller fetched from
\* its QueryResult are the rows of the statement it issued.
C1_EachQueryHasItsOwnCursor ==
    /\ \A t1, t2 \in Callers :
          (t1 # t2 /\ execPc[t1] = "result" /\ execPc[t2] = "result")
             => execCur[t1] # execCur[t2]
    /\ \A t \in Callers :
          execPc[t] = "fetched" => execRows[t] = RowsOf(execSql[t])

\* Statements whose failure the code deliberately swallows: the best-effort
\* drops of temporary objects in finally / except blocks.
CleanupSteps == {"DROP STAGE", "DROP TABLE TMP", "DROP TABLE IF EXISTS CVT"}

\* C2: when a step of Table.write has failed (other than a best-effort
\* cleanup drop), the call does not return normally: it raises.
C2_FailuresAreRaised ==
    (w.pc = "done" /\ Failed \ CleanupSteps # {}) => w.result # "returned"

\* C3: when Table.write is over, by return or by raise, the session's
\* current database and schema are what they were before the call -- for
\* every call in which the restoring statement itself did not fail.
C3_SessionRestored ==
    (/\ w.pc = "done"
     /\ "USE SCHEMA original" \notin Failed
     /\ "USE DATABASE original" \notin Failed)
    => sess = w.sess0

\* The steps of the staged load, in the order they are to occur.
StagedSteps == <<"CREATE STAGE", "to_parquet", "PUT", "COPY INTO", "DROP STAGE">>
StagedRank(x) == CHOOSE i \in 1..Len(StagedSteps) : StagedSteps[i] = x
IsStaged(x) == \E i \in 1..Len(StagedSteps) : StagedSteps[i] = x

\* C4: in the staged-load path the steps occur in the order create stage,
\* to_parquet, PUT, COPY INTO, drop stage, each at most once; COPY INTO is
\* issued only after the stage was created, the file written and the PUT
\* has finished; and once CREATE STAGE was attempted, DROP STAGE has been
\* attempted by the time _write_explicit is left, on success and on failure.
C4_StagedLoadOrder ==
    /\ \A i, j \in 1..Len(wlog) :
          (i < j /\ IsStaged(wlog[i].s) /\ IsStaged(wlog[j].s))
             => StagedRank(wlog[i].s) < StagedRank(wlog[j].s)
    /\ \A j \in 1..Len(wlog) :
          wlog[j].s = "COPY INTO" =>
             /\ \E i \in 1..(j - 1) : wlog[i] = Ev("CREATE STAGE", TRUE)
             /\ \E i \in 1..(j - 1) : wlog[i] = Ev("to_parquet", TRUE)
             /\ \E i \in 1..(j - 1) : wlog[i].s = "PUT"
    /\ (w.pc \in {"restore", "done"} /\ "CREATE STAGE" \in Issued)
          => "DROP STAGE" \in Issued

\* A staged load that failed in to_parquet has raised, after attempting to
\* drop the stage it had created.
C4_Witness ==
    /\ w.pc = "done"
    /\ w.result = "Error"
    /\ Ev("CREATE STAGE", TRUE) \in {wlog[i] : i \in 1..Len(wlog)}
    /\ "to_parquet" \in Failed
    /\ wlog[Len(wlog)].s = "DROP STAGE"

\* C5: Table.write(df, if_exists) when it is over: an unknown if_exists has
\* raised ValueError with no statement issued; 'fail' on an existing table
\* has raised (ValueError unless a statement failed) with the table, its
\* rows and the session untouched; after a normal return, 'replace' leaves
\* exactly df's rows and 'append' the earlier rows followed by df's.
C5_WriteModes ==
    w.pc = "done" =>
       /\ w.if_exists \notin {"fail", "replace", "append"} =>
             (w.result = "ValueError" /\ wlog = <<>>)
       /\ (w.if_exists = "fail" /\ w.table0 # Absent) =>
             /\ w.result \in {"ValueError", "Error"}
             /\ Failed = {} => w.result = "ValueError"
             /\ tables["T"] = w.table0
             /\ sess = w.sess0
             /\ Issued \subseteq {"SHOW TABLES"}
       /\ (w.if_exists = "replace" /\ w.result = "returned") =>
             tables["T"] = TableOf(w.df)
       /\ (w.if_exists = "append" /\ w.result = "returned") =>
             tables["T"] = TableOf(w.table0.rows \o w.df)

C11_CloseIsIdempotent ==
    /\ ctx # NoCtx => ctx.closes <= ctx.opens
    /\ (ctx # NoCtx /\ ctx.kind = "profile" /\ ctx.opens > 0
           /\ lastOp.op = "ctx.close")
          => /\ ctx.closes = ctx.opens
             /\ ctx.connector = None
             /\ ctx.conn = None
             /\ ctx.cur = None
             /\ \A k \in 1..Len(connectors) :
                   connectors[k].owner = "ctx" =>
                      /\ connectors[k].conn = None
                      /\ connectors[k].cur = None
             /\ \A i \in 1..Len(vconns) : vconns[i].closeCalls <= 1

\* close() was called on a profile-based context that an earlier close()
\* had already closed after its connection was opened.
C11_Witness ==
    /\ ctx # NoCtx
    /\ ctx.kind = "profile"
    /\ ctx.opens > 0
    /\ ctx.closes = ctx.opens
    /\ lastOp = [op |-> "ctx.close", k |-> None, ret |-> <<"again">>]

\* The last step was Session.close(), called directly or by __exit__.
C12_Closed == lastOp.op \in {"session.close", "session.exit"}

C12_OwnsIffCreated ==
    /\ session # NoSession => (session.owns <=> session.how = "profile")
    /\ C12_Closed => lastOp.ret = <<session.how = "profile">>

C12_CloseEffect ==
    C12_Closed' =>
       /\ session.how = "context" => UNCHANGED <<ctx, connectors, vconns, vcurs>>
       /\ (session.how = "profile" /\ ctx.conn # None) =>
             /\ ctx'.conn = None
             /\ ctx'.connector = None
             /\ vconns'[ctx.conn].closeCalls = vconns[ctx.conn].closeCalls + 1

\* C12: Session.close() and leaving `with session:` call the context's
\* close() exactly when the Session built the context from a profile: such
\* a context's open connection is closed by the step, and a context the
\* caller passed in is left as it was, with its connection open.
C12_SessionClosesOnlyItsOwnContext ==
    []C12_OwnsIffCreated /\ [][C12_CloseEffect]_vars

\* A Session around a caller's context whose connection is open has been
\* closed, and the connection is still open.
C12_Witness ==
    /\ C12_Closed
    /\ session.how = "context"
    /\ ctx.conn # None
    /\ vconns[ctx.conn].closeCalls = 0

\* C13: a cursor opened by get_result is closed exactly once when the call
\* has raised (and the error raised is the fetch error unless close() itself
\* raised) and not at all when the call returned it inside a QueryResult; a
\* cursor opened by abort is closed exactly once when the call is over,
\* whether it returned True, returned False or raised; no cursor is ever
\* closed twice, and none is closed while its call is still to fail.
C13_JobCursorsNotLeaked ==
    /\ \A u \in 1..Len(jobCurs) :
          LET c == jobCurs[u]
          IN /\ c.closeCalls <= 1
             /\ c.call = "running" => c.closeCalls = 0
             /\ c.call # "running" =>
                   (c.closeCalls = 0 <=>
                       (c.by = "get_result" /\ c.call = "returned"))
    /\ (job.pc = "done" /\ job.cursor # None) =>
          /\ jobCurs[job.cursor].call = job.outcome
          /\ job.method = "get_result" =>
                \/ job.outcome = "returned" /\ job.ret = "QueryResult"
                \/ /\ job.outcome = "raised"
                   /\ job.pending \in {"fetch error", "close error"}
          /\ job.method = "abort" =>
                \/ job.outcome = "returned" /\ job.ret \in {"True", "False"}
                \/ job.outcome = "raised" /\ job.pending # "none"

\* An abort has raised TypeError on a NULL result after a get_result had
\* raised; each call's cursor was closed once.
C13_Witness ==
    /\ job.pc = "done"
    /\ job.method = "abort"
    /\ job.pending = "TypeError"
    /\ \E u \in 1..Len(jobCurs) :
          /\ jobCurs[u].by = "get_result"
          /\ jobCurs[u].call = "raised"
          /\ jobCurs[u].closeCalls = 1
    /\ jobCurs[job.cursor].closeCalls = 1

\* The file the claim names for a call: the explicit path when one is given,
\* else connections.toml in the directory SNOWLIB_CONFIG_DIR names when the
\* variable is set, else ~/.snowlib/connections.toml.
C14_Claimed(path, env) ==
    IF path # NoPath THEN path
    ELSE IF env # Unset THEN ConfigFileIn(env)
    ELSE ConfigFileIn(HomeDir)

ResolvedFile(path) ==
    IF path \notin {NoPath, EmptyPath} THEN path ELSE ConfigFileIn(confDir)

\* C17: load_profile(profile, path) raises FileNotFoundError when the
\* resolved file does not exist; raises KeyError with the names of all the
\* file's profiles when the file lacks the profile; and otherwise returns
\* the parameters that file declares for that profile.
C17_LoadProfile ==
    cfgCall.fn = "load_profile" =>
       LET f == ResolvedFile(cfgCall.path)
       IN IF cfgFiles[f] = NoFile
          THEN cfgCall.out.exc = "FileNotFoundError"
          ELSE IF cfgCall.profile \notin Names(cfgFiles[f])
          THEN /\ cfgCall.out.exc = "KeyError"
               /\ Names(cfgCall.out.val) = Names(cfgFiles[f])
          ELSE cfgCall.out = Returned(ParamsIn(f, cfgCall.profile))

\* The second profile of the default file was loaded.
C17_Witness ==
    /\ cfgCall.fn = "load_profile"
    /\ cfgCall.path = NoPath
    /\ Len(cfgFiles[ConfigFileIn(confDir)]) = 2
    /\ cfgCall.profile = cfgFiles[ConfigFileIn(confDir)][2]
    /\ cfgCall.out = Returned(ParamsIn(ConfigFileIn(confDir), cfgCall.profile))

\* C18: list_profiles(path) returns the empty list, and does not raise,
\* whenever the resolved file does not exist, for an explicit path and for
\* the default one; otherwise it returns the names of the file's profiles.
C18_ListProfiles ==
    cfgCall.fn = "list_profiles" =>
       LET f == ResolvedFile(cfgCall.path)
       IN IF cfgFiles[f] = NoFile
          THEN cfgCall.out = Returned(<<>>)
          ELSE cfgCall.out = Returned(cfgFiles[f])

\* C18 for explicit paths only.
C18_ListProfilesExplicit ==
    (cfgCall.fn = "list_profiles" /\ cfgCall.path \notin {NoPath, EmptyPath})
       => C18_ListProfiles

\* The construction was for SNOWFLAKE_JWT and its key file passed the
\* checks, so that the passphrase was looked up.
PassphraseLookedUp ==
    /\ authCall.done
    /\ authCall.cfg.authenticator \in {"SNOWFLAKE_JWT", "snowflake_jwt"}
    /\ ExpandUser(authCall.cfg.private_key_file) \in keyFiles

\* The two sources, and whether each provides a passphrase.
EnvProvides ==
    authCall.cfg.private_key_passphrase_env # NoKey /\ keyEnv \notin {Unset, ""}
KeyringProvides ==
    /\ authCall.cfg.keyring_service # NoKey
    /\ authCall.cfg.keyring_username # NoKey
    /\ keyStore \in {"ring-secret"}

C16_KeypairChecks ==
    authCall.done =>
       LET cfg == authCall.cfg
           out == authCall.out
       IN IF cfg.authenticator \in {"SNOWFLAKE_JWT", "snowflake_jwt"}
          THEN IF cfg.private_key_file \in {NoKey, ""}
               THEN out.exc = "ValueError"
               ELSE IF ~IsAbsolute(ExpandUser(cfg.private_key_file))
               THEN out.exc = "ValueError"
               ELSE IF ExpandUser(cfg.private_key_file) \notin keyFiles
               THEN out.exc = "FileNotFoundError"
               ELSE /\ out.exc \in {"none", "ValueError"}
                    /\ out.exc = "none" =>
                          out.cfg.private_key_file = ExpandUser(cfg.private_key_file)
                    /\ out.exc = "ValueError" =>
                          GetKeyPassphrase(cfg, keyEnv, keyStore).exc = "ValueError"
          ELSE out = [exc |-> "none", cfg |-> cfg]

\* A lower-case snowflake_jwt with a home-relative key file that is not
\* there was refused with FileNotFoundError.
C16_Witness ==
    /\ authCall.done
    /\ authCall.cfg.authenticator = "snowflake_jwt"
    /\ authCall.cfg.private_key_file = "~/k.p8"
    /\ "/home/u/k.p8" \notin keyFiles
    /\ authCall.out.exc = "FileNotFoundError"

\* The configuration of the context's connector declares key k, and the
\* session's value for k is missing or another one, compared without case.
C19_Declares(k) == ConnectorCfg(ctx.overrides)[k] \notin {Undeclared, ""}
C19_Differs(k) ==
    \/ sessActual[k] = Null
    \/ UpperValue(ConnectorCfg(ctx.overrides)[k]) # UpperValue(sessActual[k])

C19_Warnings(k) == Cardinality({i \in 1..Len(warned) : warned[i][1] = k})
C19_Queries(k) == Cardinality({i \in 1..Len(valQueries) : valQueries[i] = k})

\* C19: each time a profile-based context opens its connection, every
\* declared key among warehouse, role, database and schema is queried once
\* and draws exactly one warning if the session's value is missing or
\* differs (case-insensitively), none otherwise; an undeclared key is
\* neither queried nor warned about; and a context around a connection
\* that was passed in runs no validation query and warns of nothing.
C19_ValidationWarnings ==
    /\ ctx = NoCtx => (warned = <<>> /\ valQueries = <<>>)
    /\ (ctx # NoCtx /\ ctx.kind = "external") =>
          (warned = <<>> /\ valQueries = <<>>)
    /\ (ctx # NoCtx /\ ctx.kind = "profile") =>
          \A k \in ValKeySet :
             /\ C19_Queries(k) = IF C19_Declares(k) THEN ctx.opens ELSE 0
             /\ C19_Warnings(k) =
                   IF C19_Declares(k) /\ C19_Differs(k) THEN ctx.opens ELSE 0

\* A profile-based context has opened its connection once: one declared
\* key matched the session but for its case, one was not active in the
\* session and drew the only warning, one was undeclared.
C19_Witness ==
    /\ ctx # NoCtx
    /\ ctx.kind = "profile"
    /\ ctx.opens = 1
    /\ profileCfg["role"] = "wh1" /\ sessActual["role"] = "WH1"
    /\ profileCfg["database"] = "wh1" /\ sessActual["database"] = Null
    /\ profileCfg["schema"] = Undeclared
    /\ warned = <<<<"database", "not active">>>>

\* What the claim calls a valid part: non-empty, a letter or underscore
\* first, and nothing but letters, digits and underscores.
C20_ValidPart(part) ==
    /\ part # <<>>
    /\ part[1] \in Letters \cup {"_"}
    /\ \A i \in 1..Len(part) : part[i] \in Letters \cup Digits \cup {"_"}

C20_Claimed(given, result) ==
    LET ok == given # <<>> /\ \A i \in 1..Len(given) : C20_ValidPart(given[i])
        invalid == {i \in 1..Len(given) : ~C20_ValidPart(given[i])}
    IN  /\ (result.raised = "none") <=> ok
        /\ ok => result.parts = [i \in 1..Len(given) |-> UpperPart(given[i])]
        /\ ~ok => result.raised = "ValueError"
        /\ invalid # {} =>
              \E i \in invalid :
                 /\ \A j \in invalid : i <= j
                 /\ result.position = i - 1

\* C20: constructing an FQN succeeds iff it has at least one part and every
\* part is non-empty, starts with a letter or underscore and consists only of
\* letters, digits and underscores; on success every stored part is the upper
\* case of the given one, and on failure a ValueError names the position of
\* the first invalid part.
C20_FqnConstruction ==
    fqn.done => C20_Claimed(fqn.given, fqn.result)

\* The same, for parts that do not end in a newline.
C20_EndsInNewline(part) == part # <<>> /\ part[Len(part)] = "\n"

C20_FqnConstructionWithoutFinalNewline ==
    (fqn.done /\ \A i \in 1..Len(fqn.given) : ~C20_EndsInNewline(fqn.given[i]))
        => C20_Claimed(fqn.given, fqn.result)

\* A part that a newline follows is accepted, and stored with the newline.
C20_NewlineAccepted ==
    /\ fqn.done
    /\ fqn.given = << <<"a", "\n">> >>
    /\ fqn.result.raised = "none"
    /\ fqn.result.parts = << <<"A", "\n">> >>

\* The components a name of n parts lacks, in the order they are asked for.
C21_Needed(n) ==
    IF n = 1 THEN <<"CURRENT_DATABASE", "CURRENT_SCHEMA">>
    ELSE IF n = 2 THEN <<"CURRENT_DATABASE">>
    ELSE <<>>

\* The session has no value for a component: no row, NULL, or "".
C21_Missing(row) == row = NoRow \/ row[1] = PyNone \/ row[1] = <<>>

C21_NeededMissing ==
    \/ Len(rtn.parts) <= 2 /\ C21_Missing(rtn.dbRow)
    \/ Len(rtn.parts) = 1 /\ C21_Missing(rtn.schemaRow)

C21_Applies == rtn.pc = "done" /\ Len(rtn.parts) \in 1..3 /\ ~IsEmptyName(rtn.parts)

\* C21: resolve_table_name queries the session only for the components the
\* name lacks (none for three parts, the database for two, the database and
\* the schema for one); when a needed component cannot be obtained it raises
\* ValueError; the components given in the name are returned unchanged.
C21_ResolveQueriesOnlyMissing ==
    C21_Applies =>
       LET n == Len(rtn.parts)
       IN /\ \A i \in 1..Len(rtn.queries) :
                i <= Len(C21_Needed(n)) /\ rtn.queries[i] = C21_Needed(n)[i]
          /\ rtn.result.exc = "none" => rtn.queries = C21_Needed(n)
          /\ C21_NeededMissing => rtn.result.exc = "ValueError"
          /\ rtn.result.exc = "none" =>
                \A i \in 1..n : rtn.result.val[3 - n + i] = rtn.parts[i]

\* The same, but a component is missing only when the query yields no row
\* or an empty string: a NULL comes back as the text "None".
C21_NullIsNotMissing ==
    C21_Applies =>
       LET n == Len(rtn.parts)
           falsy(row) == row = NoRow \/ row[1] = <<>>
       IN /\ \A i \in 1..Len(rtn.queries) :
                i <= Len(C21_Needed(n)) /\ rtn.queries[i] = C21_Needed(n)[i]
          /\ rtn.result.exc = "none" => rtn.queries = C21_Needed(n)
          /\ (n <= 2 /\ falsy(rtn.dbRow)) => rtn.result.exc = "ValueError"
          /\ (n = 1 /\ falsy(rtn.schemaRow)) => rtn.result.exc = "ValueError"
          /\ rtn.result.exc = "none" =>
                \A i \in 1..n : rtn.result.val[3 - n + i] = rtn.parts[i]

\* A session without a current database names the database "None".
C21_NoneReturned ==
    /\ rtn.pc = "done"
    /\ rtn.parts = << <<"a">>, <<"a">> >>
    /\ rtn.dbRow = <<PyNone>>
    /\ rtn.result = Returned(<<NoneText, <<"a">>, <<"a">> >>)

\* The rows the claim keeps, and those it skips.
C22_Kept == SelectSeq(listing.rows, C20_ValidPart)

C22_Skipped == SelectSeq(listing.rows, LAMBDA n : ~C20_ValidPart(n))

C22_Claimed ==
    /\ listing.result.exc = "none"
    /\ Len(listing.result.objects) = Len(C22_Kept)
    /\ \A i \in 1..Len(C22_Kept) :
          /\ listing.result.objects[i].cls = ChildClass(listing.kind)
          /\ listing.result.objects[i].row = C22_Kept[i]
    /\ listing.result.warnings = C22_Skipped

\* C22: the listing properties return one model object for each SHOW row
\* whose name is a valid unquoted identifier, in the order of the rows, emit
\* exactly one warning naming each row they skip, and never raise.
C22_ListingSkipsInvalidRows == listing.done => C22_Claimed

\* The same, when no row's name ends in a newline.
C22_ListingWithoutFinalNewline ==
    (listing.done /\ \A i \in 1..Len(listing.rows) :
                         ~C20_EndsInNewline(listing.rows[i]))
        => C22_Claimed

\* A row whose name ends in a newline becomes an object, without a warning.
C22_NewlineRowKept ==
    /\ listing.done
    /\ listing.kind = "tables"
    /\ listing.rows = << <<"a", "\n">> >>
    /\ Len(listing.result.objects) = 1
    /\ listing.result.warnings = <<>>

\* The number of parts of a fully qualified name of a model class.
C23_PartsOf(cls) ==
    IF cls = "Database" THEN 1 ELSE IF cls = "Schema" THEN 2 ELSE 3

\* from_name was given a fully qualified name of valid parts.
C23_Qualified ==
    /\ bm.done /\ bm.how = "from_name"
    /\ Len(bm.parts) = C23_PartsOf(bm.cls)
    /\ \A i \in 1..Len(bm.parts) : C20_ValidPart(bm.parts[i])

\* C23: session.database.from_name(name) returns a Database with that name
\* bound to the session's context, as session.database(name) does; from_name
\* on every bound model of the Session returns an instance of that model.
C23_FromNameReturnsModel ==
    C23_Qualified =>
       /\ bm.result.exc = "none"
       /\ bm.result.cls = bm.cls
       /\ bm.result.ctx = "session._context"
       /\ bm.result = NewModel(bm.cls, bm.parts)

\* The same for the bound models other than Database.
C23_FromNameExceptDatabase ==
    (C23_Qualified /\ bm.cls # "Database") =>
       /\ bm.result.exc = "none"
       /\ bm.result.cls = bm.cls
       /\ bm.result.ctx = "session._context"
       /\ bm.result = NewModel(bm.cls, bm.parts)

\* session.database.from_name("a") raises NotImplementedError.
C23_DatabaseFromNameRaises ==
    /\ bm.done /\ bm.how = "from_name" /\ bm.cls = "Database"
    /\ bm.parts = << <<"a">> >>
    /\ bm.result.exc = "NotImplementedError"

\* session.database("a") returns the Database A.
C23_DatabaseCallReturns ==
    /\ bm.done /\ bm.how = "call"
    /\ bm.result = [exc |-> "none", cls |-> "Database",
                    parts |-> << <<"A">> >>, ctx |-> "session._context"]

C24_HasLimit == \E i \in 1..Len(rd.query.parts) : rd.query.parts[i] = "LIMIT %s"

C24_Claimed ==
    /\ rd.limit >= 0 =>
          /\ C24_HasLimit
          /\ rd.query.bindings[Len(rd.query.bindings)] = BindInt(rd.limit)
          /\ rd.returned <= rd.limit
    /\ rd.limit = NoLimit => ~C24_HasLimit /\ rd.returned = rd.tableRows

\* C24: read(limit=n) issues a query with a LIMIT clause bound to n for every
\* integer n >= 0, so the result has at most n rows; only with limit None is
\* the LIMIT clause omitted.
C24_LimitAlwaysApplied == rd.pc = "done" => C24_Claimed

\* The same for every limit but 0.
C24_LimitAppliedWhenPositive == (rd.pc = "done" /\ rd.limit # 0) => C24_Claimed

\* read(limit=0) on a table with rows returns them all.
C24_LimitZeroReturnsAll ==
    /\ rd.pc = "done" /\ rd.limit = 0
    /\ rd.tableRows = 2 /\ rd.returned = 2
    /\ ~C24_HasLimit

\* C25: Session.execute_sql(sql, bindings) executes sql with the given
\* bindings on the session's context through Executor.run and returns the
\* QueryResult; Session.query returns that result as a DataFrame.
C25_SessionDelegatesToExecutor ==
    (sx.done /\ sx.method \in {"execute_sql", "query"}) =>
       /\ sx.result.exc = "none"
       /\ sx.result.sql = sx.sql
       /\ sx.result.bindings = sx.bindings
       /\ sx.result.kind = IF sx.method = "query" THEN "DataFrame"
                           ELSE "QueryResult"

\* Executor.run itself executes the statement with the bindings.
C25_ExecutorRuns ==
    (sx.done /\ sx.method = "Executor.run") =>
       /\ sx.result.exc = "none"
       /\ sx.result.sql = sx.sql
       /\ sx.result.bindings = sx.bindings
       /\ sx.result.kind = "QueryResult"

\* session.execute_sql("SELECT 1") raises TypeError.
C25_ExecuteSqlRaises ==
    /\ sx.done /\ sx.method = "execute_sql"
    /\ sx.sql = "SELECT 1" /\ sx.bindings = PyNone
    /\ sx.result.exc = "TypeError"

\* What the conversion is called with matches its statements: one binding
\* per placeholder, the temporary table's name first.
C30_BindingsGiven ==
    \A i \in 1..Len(w.cv) :
        /\ Len(w.cv[i].given) = w.cv[i].p
        /\ w.cv[i].p > 0 => w.cv[i].given[1] = "temp_table"

\* C30: each statement that Table._convert_columns_to_variant issues with
\* IDENTIFIER(%s) placeholders is executed with one bound value per
\* placeholder, in order: the temporary table's name, then the columns.
C30_PlaceholdersBound ==
    \A i \in 1..Len(w.cv) :
        /\ Len(w.cv[i].params) = w.cv[i].p
        /\ w.cv[i].params = w.cv[i].given

\* The first statement of the conversion has reached the driver with its
\* placeholders unbound, and has failed.
C30_UnboundStatement ==
    /\ Len(w.cv) >= 1
    /\ w.cv[1].s = "CREATE TEMPORARY TABLE AS"
    /\ w.cv[1].p = 1 + w.cvCols
    /\ w.cv[1].params = <<>>
    /\ "CREATE TEMPORARY TABLE AS" \in Failed

C26_OnlyFirstStatement ==
    \A i \in 1..Len(wlog) :
        wlog[i].s \notin {"DROP TABLE converted", "CREATE TABLE AS",
                          "DROP TABLE CVT", "INSERT INTO"}

\* C27: with mode='fail', write_table never adds rows to a table that
\* exists at the moment the data is written: no step taken while such a
\* call is under way changes a table that exists.
C27_FailNeverAddsRows ==
    [][(wt.pc # "idle" /\ wt.mode = "fail")
          => \A n \in TableNames :
                tables[n] # Absent => tables'[n] = tables[n]]_vars

\* A mode='fail' call has returned after adding its rows to a table that
\* another session created between the existence check and the write.
C27_RowsAddedAfterRace ==
    /\ wt.pc = "done"
    /\ wt.mode = "fail"
    /\ wt.result = "returned"
    /\ wt.tables0["T"] = Absent
    /\ wt.tables0["t"] = Absent
    /\ Ev("SHOW TABLES", TRUE) \in {wlog[i] : i \in 1..Len(wlog)}
    /\ Len(tables[Quoted(wt.table_name)].rows) > Len(wt.df)

\* C28: after any sequence of connect() and close() calls, also when the
\* driver's connect(), cursor() or close() raises, the connector holds a
\* connection if and only if it holds a cursor.
C28_ConnectionIffCursor ==
    (fc.conn = None) <=> (fc.cur = None)

\* What holds instead: a cursor is held only with its connection, and
\* while no call has raised the two are held together.
C28_CursorOnlyWithConnection ==
    /\ fc.cur # None => fc.conn # None
    /\ (\A i \in 1..Len(fc.log) : ~fc.log[i].raised)
          => ((fc.conn = None) <=> (fc.cur = None))

\* A connection is held without a cursor: cursor() raised in connect(),
\* or connection.close() raised in close().
C28_ConnectionWithoutCursor ==
    /\ fc.conn # None
    /\ fc.cur = None
    /\ fc.exc = "Error"

\* C29: when a primitive that returns a plain value was called with a
\* profile name, the connection it opened is closed by the time the call
\* has returned or raised.
C29_ConnectionClosedOnReturn ==
    (lk.pc = "done" /\ lk.arg = "profile")
       => \A i \in 1..Len(lk.conns) :
             lk.conns[i].by = "call" => lk.conns[i].closed

\* What holds: a call opens at most one connection, only for a profile
\* name, and no primitive closes any connection, the caller's included.
C29_OneConnectionPerCall ==
    /\ Cardinality({i \in 1..Len(lk.conns) : lk.conns[i].by = "call"})
          <= lk.calls
    /\ \A i \in 1..Len(lk.conns) : ~lk.conns[i].closed
    /\ (lk.arg = "context" /\ lk.conn # None)
          => lk.conns[lk.conn].by = "caller"

\* write_table called with a profile name has returned True and the
\* connection it opened is still open.
C29_ConnectionLeftOpen ==
    /\ lk.pc = "done"
    /\ lk.fn = "write_table"
    /\ lk.arg = "profile"
    /\ lk.result = "returned"
    /\ lk.conn # None
    /\ ~lk.conns[lk.conn].closed

====
